---- MODULE Spec2Model ----
(***************************************************************************)
(* Babel Bridge: the streaming recognition core.                           *)
(*                                                                         *)
(* Part 1 models DeepgramStreamClient (background/deepgram-stream-client)  *)
(* as a timed state machine: the client's fields, the WebSocket objects it *)
(* created, the timeouts it armed (setTimeout / setInterval) and the       *)
(* waitForConnection pollers of the connect() calls still in progress.     *)
(* Time advances in ticks of one second; a timer is due once it has waited *)
(* its delay, and time cannot pass a due timer.                            *)
(*                                                                         *)
(* Part 2 models SubtitleService.enable / disable / cleanup and            *)
(* AudioCapture.start / stop (background/service-worker, audio-capture).   *)
(***************************************************************************)
EXTENDS Integers, Sequences, FiniteSets, TLC

(***************************************************************************)
(* Bounds of the model                                                     *)
(***************************************************************************)
\* WebSocket objects the client may create in one run (initial + reconnects)
MaxSockets == 7
\* the same, in the runs that also hand audio frames or drive the service
MaxSocketsSmall == 2
\* audio frames handed to sendAudio in one run
MaxFrames == 2
\* enable requests handled by the service in one run
MaxEnables == 2
\* transcripts and segment batches delivered to the content script in one run
MaxDeliveries == 3
\* audio chunks the Whisper service is handed in one run
MaxChunks == 2
\* verifyKey and verifyAndSave calls made in one run
MaxKeyCalls == 2
\* stopAudioCapture calls made in one run
MaxStops == 3
\* chunks a capture may have handed on before more audio arrives
MaxChunksOut == 4
\* samples in one second of the model's audio (the chunker works at
\* AUDIO_CONFIG.SAMPLE_RATE; its arithmetic is the same at every rate)
SamplesPerSecond == 2
\* messages of the recognition server delivered to the client in one run
MaxMessages == 2

(***************************************************************************)
(* Program constants                                                       *)
(***************************************************************************)
KEEPALIVE_INTERVAL == 5000
RECONNECT_MAX_RETRIES == 5
RECONNECT_DELAY == 1000
CONNECT_TIMEOUT == 10000

\* ConnectionState
DISCONNECTED == "disconnected"
CONNECTING == "connecting"
CONNECTED == "connected"
CLOSING == "closing"
ERROR == "error"
ConnectionState == {DISCONNECTED, CONNECTING, CONNECTED, CLOSING, ERROR}

\* milliseconds to ticks (one tick is one second)
Ticks(ms) == ms \div 1000

VARIABLES
    \* --- DeepgramStreamClient fields
    connectionState,    \* this.connectionState
    websocket,          \* this.websocket: id of the socket held, 0 = null
    reconnectAttempts,  \* this.reconnectAttempts
    reconnectTimer,     \* this.reconnectTimer: id of the last timeout, 0 = null
    keepAliveTimer,     \* this.keepAliveTimer: [armed, waited] (setInterval)
    \* --- the platform around the client
    sockets,            \* socket id -> [st, wasOpen]
    nextSock,           \* id of the next WebSocket object
    timeouts,           \* reconnect timeouts armed and not yet fired or cleared
    pollers,            \* waitForConnection promises still pending
    initPc,             \* position of init(): "new", "gettingKey",
                        \* "connecting", "resolved", "rejected"
    legacy,             \* TRUE: the earlier revision of the client (keep-alive
                        \* started by connect, Authenticate sent on open)
    sockLimit,          \* WebSocket objects this run may create
    \* --- observation
    stepLog,            \* what the last step emitted, sent and counted in
                        \* this.stats, in order
    lastOp,             \* the handler the last step ran
    closeCalled,        \* close() has been called at least once
    handed,             \* non-empty frames handed to sendAudio while Connected
    sentAudio,          \* audio frames passed to websocket.send, in order
    nextFrame,          \* index of the next frame of the audio pipeline
    nextMsg,            \* server messages delivered so far
    \* --- SubtitleService and AudioCapture
    isActive,           \* service.isActive
    currentTabId,       \* service.currentTabId, 0 = null
    audioCapture,       \* service.audioCapture: id of the object, 0 = null
    captures,           \* AudioCapture objects: id -> [isCapturing, stopping]
    hasClient,          \* service.deepgramClient is set
    enables,            \* enable() invocations: id -> [pc, tab, disabled,
                        \* afterDisable]; disabled: disable() was called
                        \* during it; afterDisable: it was called after a
                        \* disable() had returned
    disablePc,          \* position of disable(): "idle", "notify"
    svcOp,              \* the service step the last step ran
    disabledOnce,       \* a disable() of the active service has returned
    \* --- the content script: the page's video and the SubtitleOverlay
    videoTime,          \* video.currentTime, in seconds
    overlay,            \* the SubtitleOverlay: [exists, segments,
                        \* currentSegmentIndex, container, display]
    viewOp,             \* the content-script handler the last step ran
    deliveries,         \* SUBTITLE_UPDATE messages handled so far
    \* --- the Whisper SubtitleService, its OverlapProcessor and the chunker
    whisper,            \* [isActive, currentTabId, audioCapture, enablePc]
    processor,          \* service.overlapProcessor: [hasPrevious,
                        \* previousSegments, processedSegments, chunkCount]
    chunker,            \* the offscreen chunker: [session, chunkIndex]
    jobs,               \* processChunk invocations, in order of arrival
    sent,               \* SUBTITLE_UPDATE batches sent to the tab, in order
    wOp,                \* the Whisper-service step the last step ran
    \* --- the subtitle core applied to one transcription after another
    batch,              \* the segments the core returned last
    coreOp,             \* the core operation the last step ran
    \* --- DeepgramKeyManager and chrome.storage.local
    storage,            \* the four entries of the credential record
    keyCalls,           \* verifyKey / verifyAndSave calls, in order of start
    keyOp,              \* the key-manager step the last step ran
    \* --- the offscreen document's audio capture
    capture,            \* the module variables of the offscreen document:
                        \* which nodes, context, stream, recorder and
                        \* playback mirror it holds
    stops,              \* stopAudioCapture calls: [pc, log of their steps]
    \* --- the windowed (batch) mode of the audio capture
    chunking,           \* the AudioChunker, or the MediaRecorder's counters
    chunksReady         \* the chunks handed on so far, in order

clientVars == <<connectionState, websocket, reconnectAttempts, reconnectTimer,
                keepAliveTimer, sockets, nextSock, timeouts, pollers, initPc,
                legacy, sockLimit, stepLog, lastOp, closeCalled, handed,
                sentAudio, nextFrame, nextMsg>>
svcVars == <<isActive, currentTabId, audioCapture, captures, hasClient,
             enables, disablePc, svcOp, disabledOnce>>
viewVars == <<videoTime, overlay, viewOp, deliveries>>
whisperVars == <<whisper, processor, chunker, jobs, sent, wOp>>
coreVars == <<batch, coreOp>>
keyVars == <<storage, keyCalls, keyOp>>
stopVars == <<capture, stops>>
chunkVars == <<chunking, chunksReady>>
moreVars == <<keyVars, stopVars, chunkVars>>
restVars == <<viewVars, whisperVars, coreVars, moreVars>>
vars == <<clientVars, svcVars, restVars>>

SockIds == 1..(IF MaxSockets > MaxSocketsSmall THEN MaxSockets
              ELSE MaxSocketsSmall)
NoKeepAlive == [armed |-> FALSE, waited |-> 0]
NoSocket == [st |-> "none", wasOpen |-> FALSE]
ClosedSocket == [st |-> "closed", wasOpen |-> FALSE]

(***************************************************************************)
(* The client and its platform gathered in one record, so that handlers    *)
(* compose the way the code calls them.                                    *)
(***************************************************************************)
Client ==
    [connectionState |-> connectionState, websocket |-> websocket,
     reconnectAttempts |-> reconnectAttempts, reconnectTimer |-> reconnectTimer,
     keepAliveTimer |-> keepAliveTimer, sockets |-> sockets,
     nextSock |-> nextSock, timeouts |-> timeouts, pollers |-> pollers,
     log |-> <<>>]

Commit(c) ==
    /\ connectionState' = c.connectionState
    /\ websocket' = c.websocket
    /\ reconnectAttempts' = c.reconnectAttempts
    /\ reconnectTimer' = c.reconnectTimer
    /\ keepAliveTimer' = c.keepAliveTimer
    /\ sockets' = c.sockets
    /\ nextSock' = c.nextSock
    /\ timeouts' = c.timeouts
    /\ pollers' = c.pollers
    /\ stepLog' = c.log

StateEv(new, old) == [ev |-> "onStateChange", new |-> new, old |-> old]
ErrorEv == [ev |-> "onError"]
SendEv(what) == [ev |-> "send", what |-> what]
CloseFrameEv(s) == [ev |-> "closeFrame", sock |-> s]
StatEv(field) == [ev |-> "stats++", field |-> field]
TranscriptEv(text, isFinal) ==
    [ev |-> "onTranscript", text |-> text, isFinal |-> isFinal]
ApiErrorEv(message) == [ev |-> "onError", message |-> message]

\* this.stats.<field>++
statsIncrement(c, field) == [c EXCEPT !.log = Append(@, StatEv(field))]

\* updateState(newState)
updateState(c, newState) ==
    [c EXCEPT !.connectionState = newState,
              !.log = Append(@, StateEv(newState, c.connectionState))]

\* stopKeepAlive()
stopKeepAlive(c) == [c EXCEPT !.keepAliveTimer = NoKeepAlive]

\* startKeepAlive()
startKeepAlive(c) ==
    [stopKeepAlive(c) EXCEPT !.keepAliveTimer = [armed |-> TRUE, waited |-> 0]]

\* cancelReconnect()
cancelReconnectForgotten(c) == c
cancelReconnect(c) ==
    IF c.reconnectTimer # 0
    THEN [c EXCEPT !.timeouts = {t \in @ : t.id # c.reconnectTimer},
                   !.reconnectTimer = 0]
    ELSE c

\* the delay of the n-th reconnect attempt
ReconnectDelayFixed(n) == RECONNECT_DELAY
ReconnectDelay(n) == RECONNECT_DELAY * n

\* scheduleReconnect(); id names the timeout that setTimeout returns
scheduleReconnect(c, id) ==
    LET n == c.reconnectAttempts + 1
    IN [c EXCEPT !.reconnectAttempts = n,
                 !.reconnectTimer = id,
                 !.timeouts = @ \cup {[id |-> id, delay |-> ReconnectDelay(n),
                                       waited |-> 0]}]

\* the condition under which handleClose schedules a reconnect
ShouldReconnectAlways(wasClean, attempts) == attempts < RECONNECT_MAX_RETRIES
ShouldReconnect(wasClean, attempts) ==
    ~wasClean /\ attempts < RECONNECT_MAX_RETRIES

\* handleClose(event) for the close event of socket s
handleClose(c, s, wasClean) ==
    LET c1 == stopKeepAlive(updateState(c, DISCONNECTED))
    IN IF ShouldReconnect(wasClean, c1.reconnectAttempts)
       THEN scheduleReconnect(c1, s)
       ELSE c1

\* handleError(event)
handleErrorReconnects(c) ==
    LET c1 == updateState(statsIncrement(c, "errors"), ERROR)
    IN scheduleReconnect([c1 EXCEPT !.log = Append(@, ErrorEv)], c.nextSock)
handleError(c) ==
    LET c1 == updateState(statsIncrement(c, "errors"), ERROR)
    IN [c1 EXCEPT !.log = Append(@, ErrorEv)]

\* websocket.send(data) on the socket the client holds: "sent" on an open
\* socket, "thrown" when there is no socket or it is still connecting,
\* "discarded" on a closing or closed socket
SendOutcome(c) ==
    IF c.websocket = 0 THEN "thrown"
    ELSE LET st == c.sockets[c.websocket].st
         IN IF st = "open" THEN "sent"
            ELSE IF st = "connecting" THEN "thrown"
            ELSE "discarded"

wsSend(c, what) ==
    IF SendOutcome(c) = "sent"
    THEN [c EXCEPT !.log = Append(@, SendEv(what))]
    ELSE c

\* handleOpen(event)
handleOpen(c) ==
    LET c1 == updateState(c, CONNECTED)
    IN IF legacy THEN wsSend(c1, "Authenticate") ELSE c1

\* connect() up to its await: a new socket, its handlers, and a poller
connect(c, fromInit) ==
    IF c.connectionState = CONNECTED THEN c
    ELSE LET c1 == updateState(c, CONNECTING)
         IN [c1 EXCEPT !.websocket = c.nextSock,
                       !.sockets[c.nextSock] = [st |-> "connecting",
                                                wasOpen |-> FALSE],
                       !.nextSock = @ + 1,
                       !.pollers = @ \cup {[age |-> 0, fromInit |-> fromInit,
                                            closedDuring |-> FALSE]}]

\* connect() after waitForConnection resolved
connectResolved(c) ==
    LET c1 == IF legacy THEN startKeepAlive(c) ELSE c
    IN [c1 EXCEPT !.reconnectAttempts = 0]

\* connect() after waitForConnection rejected; init() catches the rethrown
\* error and updates the state once more
connectRejected(c, fromInit) ==
    LET c1 == updateState(c, ERROR)
    IN IF fromInit THEN updateState(c1, ERROR) ELSE c1

\* close()
close(c) ==
    LET c1 == stopKeepAlive(cancelReconnect(updateState(c, CLOSING)))
        c2 == IF c1.websocket # 0
              THEN [c1 EXCEPT
                     !.sockets[c1.websocket] =
                        IF @.st \in {"connecting", "open"}
                        THEN [@ EXCEPT !.st = "closing"] ELSE @,
                     !.log = IF c1.sockets[c1.websocket].st
                                  \in {"connecting", "open"}
                             THEN Append(@, CloseFrameEv(c1.websocket))
                             ELSE @,
                     !.websocket = 0]
              ELSE c1
    IN updateState(c2, DISCONNECTED)

\* `!transcript` in handleTranscriptResult: an absent or empty text
TranscriptPresentAlways(t) == TRUE
TranscriptPresent(t) == t \notin {"missing", ""}

\* handleTranscriptResult(data)
handleTranscriptResult(c, data) ==
    IF data.channel = "missing" THEN c
    ELSE IF data.channel = "noAlternatives" THEN c
    ELSE IF ~TranscriptPresent(data.transcript) THEN c
    ELSE LET c1 == statsIncrement(c, "transcriptsReceived")
             c2 == statsIncrement(c1, IF data.isFinal THEN "finalResults"
                                      ELSE "interimResults")
         IN [c2 EXCEPT !.log = Append(@, TranscriptEv(data.transcript,
                                                      data.isFinal))]

\* `data.message || 'Deepgram API 錯誤'`
DefaultApiError == "Deepgram API error"
ErrorMessageDefault(m) == DefaultApiError
ErrorMessage(m) == IF m \in {"missing", ""} THEN DefaultApiError ELSE m

\* handleMessage(event), event.data parsed into data
handleMessage(c, data) ==
    IF data.type = "unparseable" THEN statsIncrement(c, "errors")
    ELSE IF data.type = "Results" THEN handleTranscriptResult(c, data)
    ELSE IF data.type = "Error"
    THEN [statsIncrement(c, "errors") EXCEPT
            !.log = Append(@, ApiErrorEv(ErrorMessage(data.message)))]
    ELSE c

\* the guards of sendAudio(audioData): connected and a non-empty buffer
sendAudioAcceptsInverted(state, len) == state # CONNECTED /\ len # 0
sendAudioAccepts(state, len) == state = CONNECTED /\ len # 0

(***************************************************************************)
(* Initial state: a client just constructed, a service just constructed.   *)
(***************************************************************************)
NoMsg == [type |-> "none"]
NoOp == [op |-> "none", sock |-> 0, clean |-> FALSE, err |-> FALSE,
         msg |-> NoMsg]
Op(name, s, clean, err) ==
    [op |-> name, sock |-> s, clean |-> clean, err |-> err, msg |-> NoMsg]

EnableIds == 1..MaxEnables
Tabs == {1, 2}
FrameLens == {0, 640}

ClientInit ==
    /\ connectionState = DISCONNECTED
    /\ websocket = 0
    /\ reconnectAttempts = 0
    /\ reconnectTimer = 0
    /\ keepAliveTimer = NoKeepAlive
    /\ sockets = [s \in SockIds |-> NoSocket]
    /\ nextSock = 1
    /\ timeouts = {}
    /\ pollers = {}
    /\ nextMsg = 0
    /\ initPc = "new"
    /\ legacy \in BOOLEAN
    /\ stepLog = <<>>
    /\ lastOp = NoOp
    /\ closeCalled = FALSE
    /\ handed = <<>>
    /\ sentAudio = <<>>
    /\ nextFrame = 0

SvcInit ==
    /\ isActive = FALSE
    /\ currentTabId = 0
    /\ audioCapture = 0
    /\ captures = [c \in EnableIds |-> [isCapturing |-> FALSE,
                                        stopping |-> FALSE]]
    /\ hasClient = FALSE
    /\ enables = [e \in EnableIds |-> [pc |-> "idle", tab |-> 0,
                                       disabled |-> FALSE,
                                       afterDisable |-> FALSE]]
    /\ disablePc = "idle"
    /\ svcOp = "none"
    /\ disabledOnce = FALSE

\* the content script before ENABLE_SUBTITLES: no overlay, the video at 0
NoOverlay == [exists |-> FALSE, segments |-> <<>>, currentSegmentIndex |-> -1,
              container |-> <<>>, display |-> ""]
NoViewOp == [op |-> "none", text |-> <<>>, isFinal |-> FALSE, before |-> <<>>]

ViewInit ==
    /\ videoTime = 0
    /\ overlay = NoOverlay
    /\ viewOp = NoViewOp
    /\ deliveries = 0

\* the Whisper service after construction and init(): nothing retained
NoWOp == [op |-> "none", job |-> 0, ran |-> FALSE]

WhisperInit ==
    /\ whisper = [isActive |-> FALSE, currentTabId |-> 0,
                  audioCapture |-> FALSE, enablePc |-> "idle"]
    /\ processor = [hasPrevious |-> FALSE, previousSegments |-> <<>>,
                    processedSegments |-> <<>>, chunkCount |-> 0]
    /\ chunker = [session |-> 0, chunkIndex |-> 0]
    /\ jobs = <<>>
    /\ sent = <<>>
    /\ wOp = NoWOp

\* the core before its first operation
NoCoreOp == [op |-> "none", first |-> FALSE, start |-> 0, previous |-> <<>>,
             current |-> <<>>, duplicates |-> {}, returned |-> <<>>]

CoreInit ==
    /\ batch = <<>>
    /\ coreOp = NoCoreOp

\* chrome.storage.local without a credential record, no call made yet
Absent == [by |-> 0]
EmptyStorage == [encrypted |-> Absent, verifiedAt |-> Absent,
                 scopes |-> Absent, project |-> Absent]
NoKey == [body |-> "", padded |-> FALSE, wellFormed |-> FALSE]
NoKeyOp == [op |-> "none", call |-> 0, outcome |-> [kind |-> "none"],
            error |-> "none", seen |-> EmptyStorage, got |-> NoKey]

KeyInit ==
    /\ storage = EmptyStorage
    /\ keyCalls = <<>>
    /\ keyOp = NoKeyOp

\* the offscreen document right after loading: nothing is held
NoCapture == [variant |-> "none", sourceNode |-> FALSE, workletNode |-> FALSE,
              audioContext |-> FALSE, mediaStream |-> FALSE,
              mediaRecorder |-> FALSE, mirror |-> "none"]
StopInit ==
    /\ capture = NoCapture
    /\ stops = <<>>

\* no capture in windowed mode yet
NoChunking == [variant |-> "none", bufferFrom |-> 0, bufferLen |-> 0,
               totalSamples |-> 0, chunkIndex |-> 0, accumulatedDuration |-> 0,
               running |-> FALSE]
ChunkInit ==
    /\ chunking = NoChunking
    /\ chunksReady = <<>>

RestInit ==
    ViewInit /\ WhisperInit /\ CoreInit /\ KeyInit /\ StopInit /\ ChunkInit

Init == ClientInit /\ SvcInit /\ RestInit /\ sockLimit = MaxSockets

(***************************************************************************)
(* Steps of the client.  A ...Step is the effect on the client; the action *)
(* of the same name without Step is that step taken with the service idle. *)
(***************************************************************************)
cfgUnchanged == UNCHANGED <<legacy, sockLimit>>
ghostUnchanged ==
    UNCHANGED <<closeCalled, handed, sentAudio, nextFrame, nextMsg>>

\* init() up to `await DeepgramKeyManager.getKey()`
InitStartStep ==
    /\ initPc = "new"
    /\ initPc' = "gettingKey"
    /\ Commit(Client)
    /\ lastOp' = Op("init", 0, FALSE, FALSE)
    /\ cfgUnchanged /\ ghostUnchanged

InitStart == InitStartStep /\ UNCHANGED <<svcVars, restVars>>

\* init() after getKey(): no key -> catch -> ERROR, rethrow; a key -> connect()
InitGotKey(keyFound) ==
    /\ initPc = "gettingKey"
    /\ IF keyFound
       THEN /\ nextSock <= sockLimit
            /\ Commit(connect(Client, TRUE))
            /\ initPc' = "connecting"
       ELSE /\ Commit(updateState(Client, ERROR))
            /\ initPc' = "rejected"
    /\ lastOp' = Op("connect", nextSock, FALSE, ~keyFound)
    /\ cfgUnchanged /\ ghostUnchanged
    /\ UNCHANGED <<svcVars, restVars>>

\* the open event of socket s
SocketOpen(s) ==
    /\ sockets[s].st = "connecting"
    /\ Commit(handleOpen([Client EXCEPT !.sockets[s] =
                             [st |-> "open", wasOpen |-> TRUE]]))
    /\ lastOp' = Op("handleOpen", s, FALSE, FALSE)
    /\ UNCHANGED initPc /\ cfgUnchanged /\ ghostUnchanged
    /\ UNCHANGED <<svcVars, restVars>>

\* the close event of socket s with wasClean = false; a connection that
\* failed (always so before it opened) fires its error event first
SocketCloseUnclean(s, withError) ==
    /\ sockets[s].st \in {"connecting", "open", "closing"}
    /\ ~sockets[s].wasOpen => withError
    /\ LET c0 == [Client EXCEPT !.sockets[s] = ClosedSocket]
           c1 == IF withError THEN handleError(c0) ELSE c0
       IN Commit(handleClose(c1, s, FALSE))
    /\ lastOp' = Op("handleClose", s, FALSE, withError)
    /\ UNCHANGED initPc /\ cfgUnchanged /\ ghostUnchanged
    /\ UNCHANGED <<svcVars, restVars>>

\* the close event of socket s with wasClean = true (code 1000)
SocketCloseClean(s) ==
    /\ sockets[s].st \in {"open", "closing"}
    /\ sockets[s].wasOpen
    /\ Commit(handleClose([Client EXCEPT !.sockets[s] = ClosedSocket], s, TRUE))
    /\ lastOp' = Op("handleClose", s, TRUE, FALSE)
    /\ UNCHANGED initPc /\ cfgUnchanged /\ ghostUnchanged
    /\ UNCHANGED <<svcVars, restVars>>

\* checkState() of a pending waitForConnection (every 100 ms) when it finds
\* the state CONNECTED or ERROR; in any other state it only re-arms itself
PollCheck(p) ==
    /\ p \in pollers
    /\ connectionState \in {CONNECTED, ERROR}
    /\ LET c0 == [Client EXCEPT !.pollers = @ \ {p}]
       IN IF connectionState = CONNECTED
          THEN /\ Commit(connectResolved(c0))
               /\ lastOp' = Op("connectResolved", 0, FALSE, p.closedDuring)
               /\ initPc' = IF p.fromInit THEN "resolved" ELSE initPc
          ELSE /\ Commit(connectRejected(c0, p.fromInit))
               /\ lastOp' = Op("connectRejected", 0, FALSE, p.closedDuring)
               /\ initPc' = IF p.fromInit THEN "rejected" ELSE initPc
    /\ cfgUnchanged /\ ghostUnchanged
    /\ UNCHANGED <<svcVars, restVars>>

\* the 10 s timeout of a pending waitForConnection
PollTimeout(p) ==
    /\ p \in pollers
    /\ p.age >= Ticks(CONNECT_TIMEOUT)
    /\ Commit(connectRejected([Client EXCEPT !.pollers = @ \ {p}], p.fromInit))
    /\ lastOp' = Op("connectTimeout", 0, FALSE, p.closedDuring)
    /\ initPc' = IF p.fromInit THEN "rejected" ELSE initPc
    /\ cfgUnchanged /\ ghostUnchanged
    /\ UNCHANGED <<svcVars, restVars>>

\* the callback of a reconnect timeout: connect()
ReconnectFire(t) ==
    /\ t \in timeouts
    /\ t.waited >= Ticks(t.delay)
    /\ connectionState # CONNECTED => nextSock <= sockLimit
    /\ Commit(connect([Client EXCEPT !.timeouts = @ \ {t}], FALSE))
    /\ lastOp' = Op("reconnect", t.id, FALSE, FALSE)
    /\ UNCHANGED initPc /\ cfgUnchanged /\ ghostUnchanged
    /\ UNCHANGED <<svcVars, restVars>>

\* the callback of the keep-alive interval
KeepAliveFire ==
    /\ keepAliveTimer.armed
    /\ keepAliveTimer.waited >= Ticks(KEEPALIVE_INTERVAL)
    /\ LET c0 == [Client EXCEPT !.keepAliveTimer.waited = 0]
       IN Commit(IF connectionState = CONNECTED
                 THEN wsSend(c0, "KeepAlive") ELSE c0)
    /\ lastOp' = Op("keepAlive", 0, FALSE, FALSE)
    /\ UNCHANGED initPc /\ cfgUnchanged /\ ghostUnchanged
    /\ UNCHANGED <<svcVars, restVars>>

\* one second passes: no armed timer is due, and no poller is left that
\* would find CONNECTED or ERROR at its next check (they check every 100 ms)
Tick ==
    /\ timeouts # {} \/ pollers # {} \/ keepAliveTimer.armed
    /\ \A t \in timeouts : t.waited < Ticks(t.delay)
    /\ \A p \in pollers : p.age < Ticks(CONNECT_TIMEOUT)
    /\ pollers # {} => connectionState \notin {CONNECTED, ERROR}
    /\ keepAliveTimer.armed =>
          keepAliveTimer.waited < Ticks(KEEPALIVE_INTERVAL)
    /\ Commit([Client EXCEPT
          !.timeouts = {[t EXCEPT !.waited = @ + 1] : t \in @},
          !.pollers = {[p EXCEPT !.age = @ + 1] : p \in @},
          !.keepAliveTimer = IF @.armed THEN [@ EXCEPT !.waited = @ + 1]
                             ELSE @])
    /\ lastOp' = Op("tick", 0, FALSE, FALSE)
    /\ UNCHANGED initPc /\ cfgUnchanged /\ ghostUnchanged
    /\ UNCHANGED <<svcVars, restVars>>

\* close(); the connect() calls still waiting are marked as overtaken by it
CloseStep ==
    /\ Commit([close(Client) EXCEPT
          !.pollers = {[p EXCEPT !.closedDuring = TRUE] : p \in @}])
    /\ closeCalled' = TRUE
    /\ lastOp' = Op("close", websocket, FALSE, FALSE)
    /\ UNCHANGED <<initPc, handed, sentAudio, nextFrame, nextMsg>>
    /\ cfgUnchanged

\* close(), whenever the owner of the client calls it
Close == CloseStep /\ UNCHANGED <<svcVars, restVars>>

\* sendAudio(audioData) with the next frame of the pipeline, len bytes long
SendAudio(len) ==
    /\ nextFrame < MaxFrames
    /\ nextFrame' = nextFrame + 1
    /\ LET frame == [idx |-> nextFrame, len |-> len]
           accepted == sendAudioAccepts(connectionState, len)
       IN /\ handed' = IF connectionState = CONNECTED /\ len # 0
                       THEN Append(handed, frame) ELSE handed
          /\ sentAudio' = IF accepted /\ SendOutcome(Client) = "sent"
                          THEN Append(sentAudio, frame) ELSE sentAudio
          /\ Commit(IF accepted THEN wsSend(Client, "audio") ELSE Client)
    /\ lastOp' = Op("sendAudio", websocket, FALSE, FALSE)
    /\ UNCHANGED <<initPc, closeCalled, nextMsg>> /\ cfgUnchanged
    /\ UNCHANGED <<svcVars, restVars>>

\* the message event of socket s: handleMessage
SocketMessage(s, data) ==
    /\ sockets[s].st \in {"open", "closing"}
    /\ sockets[s].wasOpen
    /\ nextMsg < MaxMessages
    /\ nextMsg' = nextMsg + 1
    /\ Commit(handleMessage(Client, data))
    /\ lastOp' = [Op("handleMessage", s, FALSE, FALSE) EXCEPT !.msg = data]
    /\ UNCHANGED <<initPc, closeCalled, handed, sentAudio, nextFrame>>
    /\ cfgUnchanged
    /\ UNCHANGED <<svcVars, restVars>>

\* what the platform does to the client: socket events, timers, time
ClientEnv ==
    \/ \E k \in BOOLEAN : InitGotKey(k)
    \/ \E s \in SockIds : SocketOpen(s)
    \/ \E s \in SockIds, e \in BOOLEAN : SocketCloseUnclean(s, e)
    \/ \E s \in SockIds : SocketCloseClean(s)
    \/ \E p \in pollers : PollCheck(p)
    \/ \E p \in pollers : PollTimeout(p)
    \/ \E t \in timeouts : ReconnectFire(t)
    \/ KeepAliveFire
    \/ Tick

\* the client on its own: its owner calls init() once and close() at will
Next ==
    \/ InitStart
    \/ ClientEnv
    \/ Close

Spec == Init /\ [][Next]_vars

\* the client together with the audio frames the pipeline hands to it
InitAudio == ClientInit /\ SvcInit /\ RestInit /\ sockLimit = MaxSocketsSmall

NextAudio ==
    \/ Next
    \/ \E len \in FrameLens : SendAudio(len)

SpecAudio == InitAudio /\ [][NextAudio]_vars

\* the messages the server may send, as handleMessage tells them apart
Messages ==
    {[type |-> t] : t \in {"unparseable", "Metadata", "Unknown"}}
    \cup {[type |-> "Results", channel |-> ch, transcript |-> "missing",
            isFinal |-> FALSE] : ch \in {"missing", "noAlternatives"}}
    \cup {[type |-> "Results", channel |-> "alternatives", transcript |-> t,
            isFinal |-> f] : t \in {"missing", "", "hello"}, f \in BOOLEAN}
    \cup {[type |-> "Error", message |-> m] :
            m \in {"missing", "", "rate limited"}}

\* the client together with the messages of the recognition server
InitMsg == ClientInit /\ SvcInit /\ RestInit /\ sockLimit = MaxSocketsSmall

NextMsg ==
    \/ Next
    \/ \E s \in SockIds, data \in Messages : SocketMessage(s, data)

SpecMsg == InitMsg /\ [][NextMsg]_vars

TypeOK ==
    /\ connectionState \in ConnectionState
    /\ websocket \in 0..MaxSockets
    /\ reconnectAttempts \in 0..RECONNECT_MAX_RETRIES
    /\ nextSock \in 1..(sockLimit + 1)

(***************************************************************************)
(* Reconnection, close() and the send path of the client                   *)
(***************************************************************************)
UncleanClose(op) == op.op = "handleClose" /\ ~op.clean
HasCloseFrame(log) == \E i \in DOMAIN log : log[i].ev = "closeFrame"
LiveSockets == {s \in SockIds : sockets[s].st \in {"connecting", "open"}}

\* C1: a non-clean close with fewer than 5 attempts used schedules exactly
\* one reconnect, increments the attempt counter by one and arms the timeout
\* with 1000 ms x the incremented counter; the reconnect fires when exactly
\* that delay has passed, so the delays run 1000, 2000, ... 5000 ms.
C1_LinearBackoff ==
    /\ [][(UncleanClose(lastOp') /\ reconnectAttempts < RECONNECT_MAX_RETRIES)
            => /\ reconnectAttempts' = reconnectAttempts + 1
               /\ timeouts' = {[id |-> lastOp'.sock,
                                delay |-> 1000 * reconnectAttempts',
                                waited |-> 0]}
               /\ timeouts = {}
               /\ reconnectTimer' = lastOp'.sock]_vars
    /\ [][lastOp'.op = "reconnect"
            => \E t \in timeouts : /\ t.id = lastOp'.sock
                                   /\ t.waited * 1000 = t.delay
                                   /\ t.delay = 1000 * reconnectAttempts]_vars

\* the fifth reconnect is due after its 5000 ms
C1_Witness ==
    /\ reconnectAttempts = 5
    /\ \E t \in timeouts : t.delay = 5000 /\ t.waited = 5

\* C2 (as claimed): when a non-clean close finds 5 attempts used, no
\* reconnect is scheduled and the last thing the listeners are told in that
\* step is an error (onError, or the state Errored).
C2_GiveUpEmitsError ==
    [][(UncleanClose(lastOp') /\ reconnectAttempts >= RECONNECT_MAX_RETRIES)
         => /\ timeouts' = timeouts
            /\ stepLog' # <<>>
            /\ LET last == stepLog'[Len(stepLog')]
               IN \/ last = ErrorEv
                  \/ last.ev = "onStateChange" /\ last.new = ERROR]_vars

\* C3 (as claimed): once the connection is open and no connect() is still
\* waiting for it, the attempt counter is 0.
C3_OpenResetsAttempts ==
    (connectionState = CONNECTED /\ pollers = {}) => reconnectAttempts = 0

\* C4: a clean close event schedules no reconnect and leaves the attempt
\* counter as it was.
C4_CleanCloseNoReconnect ==
    [][(lastOp'.op = "handleClose" /\ lastOp'.clean)
         => /\ reconnectAttempts' = reconnectAttempts
            /\ timeouts' = timeouts
            /\ reconnectTimer' = reconnectTimer]_vars

\* a clean close has just been handled while attempts had been used
C4_Witness ==
    /\ lastOp.op = "handleClose" /\ lastOp.clean
    /\ reconnectAttempts > 0
    /\ timeouts = {}

\* C5 (as claimed): once close() has been called no reconnect is pending
\* and none takes place.
C5_NoReconnectAfterClose ==
    closeCalled => (timeouts = {} /\ lastOp.op # "reconnect")

\* C6: every close() ends Disconnected with no socket held and no keep-alive
\* or reconnect timer pending; a close() on a client that holds no socket
\* (never connected, or closed before) sends no close frame, and a close()
\* right after a close() changes nothing.
ClientFields ==
    <<connectionState, websocket, reconnectAttempts, reconnectTimer,
      keepAliveTimer, sockets, timeouts>>

C6_CloseIdempotent ==
    [][lastOp'.op = "close"
         => /\ connectionState' = DISCONNECTED
            /\ websocket' = 0
            /\ reconnectTimer' = 0
            /\ timeouts' = {}
            /\ keepAliveTimer' = NoKeepAlive
            /\ websocket = 0 => ~HasCloseFrame(stepLog')
            /\ lastOp.op = "close"
                  => ClientFields' = ClientFields /\ ~HasCloseFrame(stepLog')
      ]_vars

\* close() has just run on a client that had connected and holds no socket
\* any more: a repeated close()
C6_Witness ==
    /\ lastOp.op = "close" /\ lastOp.sock = 0
    /\ nextSock > 1
    /\ connectionState = DISCONNECTED

\* C7 (as claimed): a non-clean close event, which every close before
\* Connected is, leaves the state Errored (close() not having been called).
C7_UncleanCloseErrored ==
    [][(UncleanClose(lastOp') /\ ~closeCalled)
         => connectionState' = ERROR]_vars

\* C8 (as claimed): a connect() that was waiting for the open event when
\* close() was called does not change the state afterwards and does not
\* complete.
C8_CloseCancelsWait ==
    [][(lastOp'.op \in {"connectResolved", "connectRejected", "connectTimeout"}
          /\ lastOp'.err)
         => /\ connectionState' = connectionState
            /\ lastOp'.op # "connectResolved"]_vars

\* C10: while Connected every non-empty frame handed to sendAudio is passed
\* to websocket.send in the same step, alone, so the frames sent are the
\* frames handed over, each once and in arrival order.
C10_FramesForwardedInOrder ==
    /\ [](sentAudio = handed)
    /\ [][lastOp'.op = "sendAudio"
            => IF handed' # handed
               THEN /\ stepLog' = <<SendEv("audio")>>
                    /\ sentAudio' = Append(sentAudio, handed'[Len(handed')])
               ELSE stepLog' = <<>> /\ sentAudio' = sentAudio]_vars

\* two frames have been forwarded, an empty one skipped in between or not
C10_Witness ==
    /\ Len(sentAudio) >= 2
    /\ lastOp.op = "sendAudio"

\* C28: a frame handed to sendAudio while the client cannot accept frames
\* is dropped whole (no part of it is sent) and one counter of the
\* statistics is incremented for it, once.
C28_DroppedFramesCounted ==
    [][(lastOp'.op = "sendAudio" /\ nextFrame' # nextFrame
           /\ connectionState # CONNECTED)
        => /\ sentAudio' = sentAudio
           /\ \A i \in DOMAIN stepLog' : stepLog'[i].ev # "send"
           /\ Cardinality({i \in DOMAIN stepLog' :
                               stepLog'[i].ev = "stats++"}) = 1]_vars

(***************************************************************************)
(* What the client sends besides audio: keep-alive and text frames         *)
(***************************************************************************)
SentIn(log) == {log[i].what : i \in {j \in DOMAIN log : log[j].ev = "send"}}

\* C11 (as claimed): nothing but binary audio frames and KeepAlive text
\* frames is ever passed to websocket.send; in particular no configuration
\* or authentication message.
C11_NoTextConfiguration == SentIn(stepLog) \subseteq {"audio", "KeepAlive"}

\* C12 (as claimed): in the keep-alive variant, a session that is Connected
\* (its connect() no longer waiting) has the keep-alive interval armed and
\* never more than 5 s behind; each time the interval fires exactly 5 s have
\* passed, one {"type":"KeepAlive"} frame is sent and the session stays
\* Connected.
C12_KeepAliveEvery5s ==
    /\ []((legacy /\ connectionState = CONNECTED /\ pollers = {})
            => (keepAliveTimer.armed /\ keepAliveTimer.waited * 1000 <= 5000))
    /\ [][(lastOp'.op = "keepAlive" /\ connectionState = CONNECTED)
            => /\ keepAliveTimer.waited * 1000 = 5000
               /\ stepLog' = <<SendEv("KeepAlive")>>
               /\ connectionState' = CONNECTED]_vars

\* C13 (as claimed): once close() has been called the keep-alive interval is
\* not armed and no KeepAlive frame is sent.
C13_KeepAliveStopsOnClose ==
    closeCalled => (~keepAliveTimer.armed /\ "KeepAlive" \notin SentIn(stepLog))

(***************************************************************************)
(* Messages of the recognition server                                      *)
(***************************************************************************)
EventsIn(log, ev) == {i \in DOMAIN log : log[i].ev = ev}
Counted(log, field) ==
    {i \in EventsIn(log, "stats++") : log[i].field = field}
MessageStep(op, type) == op.op = "handleMessage" /\ op.msg.type = type

\* C14: a Results message whose channel.alternatives[0].transcript is a
\* non-empty text emits exactly one Transcript event, carrying that text and
\* the message's is_final; a Results message without channel, without
\* alternatives, or with an empty or absent transcript emits none.
C14_OneTranscriptPerResult ==
    [][MessageStep(lastOp', "Results")
         => LET d == lastOp'.msg
                evs == EventsIn(stepLog', "onTranscript")
            IN IF d.channel = "alternatives" /\ d.transcript = "hello"
               THEN /\ Cardinality(evs) = 1
                    /\ \A i \in evs : stepLog'[i] =
                          [ev |-> "onTranscript", text |-> "hello",
                           isFinal |-> d.isFinal]
               ELSE evs = {}]_vars

\* a final Results message with a text has just been handled, as the second
\* message of the run
C14_Witness ==
    /\ MessageStep(lastOp, "Results")
    /\ lastOp.msg.transcript = "hello" /\ lastOp.msg.isFinal
    /\ stepLog = <<StatEv("transcriptsReceived"), StatEv("finalResults"),
                   TranscriptEv("hello", TRUE)>>
    /\ nextMsg = 2

\* C15: an Error message counts one error in the statistics and emits
\* exactly one Error event; the event carries the payload's message when
\* the payload has one.
C15_ErrorMessageCounted ==
    [][MessageStep(lastOp', "Error")
         => LET d == lastOp'.msg
                evs == EventsIn(stepLog', "onError")
            IN /\ Cardinality(Counted(stepLog', "errors")) = 1
               /\ Cardinality(evs) = 1
               /\ d.message = "rate limited"
                     => \A i \in evs : stepLog'[i].message = "rate limited"
      ]_vars

\* an Error message with a text has just been handled
C15_Witness ==
    /\ MessageStep(lastOp, "Error")
    /\ lastOp.msg.message = "rate limited"
    /\ stepLog = <<StatEv("errors"), ApiErrorEv("rate limited")>>

\* C16 (as claimed): an Error message on a Connected session moves it to
\* Errored and arms a reconnect timeout of 1000 ms.
C16_ErrorMessageReconnects ==
    [][(MessageStep(lastOp', "Error") /\ connectionState = CONNECTED)
         => /\ connectionState' = ERROR
            /\ \E t \in timeouts' \ timeouts : t.delay = 1000]_vars

(***************************************************************************)
(* The content script: VideoMonitor and SubtitleOverlay                    *)
(* (content/content-script).  Times are whole seconds; a text is a         *)
(* sequence of characters.                                                 *)
(***************************************************************************)
SEGMENT_RETENTION_SECONDS == 30
FINAL_DISPLAY_SECONDS == 3
INTERIM_DISPLAY_SECONDS == 999999

\* String.prototype.trim()
RECURSIVE TrimStart(_)
TrimStart(text) ==
    IF text # <<>> /\ Head(text) = " " THEN TrimStart(Tail(text)) ELSE text

RECURSIVE TrimEnd(_)
TrimEnd(text) ==
    IF text # <<>> /\ text[Len(text)] = " "
    THEN TrimEnd(SubSeq(text, 1, Len(text) - 1)) ELSE text

Trim(text) == TrimEnd(TrimStart(text))

\* segments.sort((a, b) => a.start - b.start): a stable sort
RECURSIVE InsertByStart(_, _)
InsertByStart(sorted, seg) ==
    IF sorted = <<>> THEN <<seg>>
    ELSE IF sorted[Len(sorted)].start <= seg.start THEN Append(sorted, seg)
    ELSE Append(InsertByStart(SubSeq(sorted, 1, Len(sorted) - 1), seg),
                sorted[Len(sorted)])

RECURSIVE SortByStart(_)
SortByStart(segs) ==
    IF segs = <<>> THEN <<>>
    ELSE InsertByStart(SortByStart(SubSeq(segs, 1, Len(segs) - 1)),
                       segs[Len(segs)])

\* the caption element that show / showDirect put into the container
Caption(text, interim) == [text |-> text, interim |-> interim]

\* showDirect(segment)
showDirectAppending(o, segment) ==
    [o EXCEPT !.container = Append(@, Caption(segment.text, ~segment.isFinal)),
              !.display = "flex"]
showDirect(o, segment) ==
    [o EXCEPT !.container = <<Caption(segment.text, ~segment.isFinal)>>,
              !.display = "flex"]

\* show(segment)
show(o, segment) ==
    [o EXCEPT !.container = <<Caption(segment.text, FALSE)>>,
              !.display = "flex"]

\* hide()
hide(o) ==
    IF o.display # "none"
    THEN [o EXCEPT !.display = "none", !.currentSegmentIndex = -1]
    ELSE o

\* findSegmentIndex(currentTime), with the code's 0-based result
findSegmentIndex(o, currentTime) ==
    LET hits == {i \in DOMAIN o.segments :
                    /\ currentTime >= o.segments[i].start
                    /\ currentTime <= o.segments[i].end}
    IN IF hits = {} THEN -1
       ELSE (CHOOSE i \in hits : \A j \in hits : i <= j) - 1

\* pruneOldSegments(currentTime)
pruneOldSegments(o, currentTime) ==
    LET cutoff == IF currentTime - SEGMENT_RETENTION_SECONDS > 0
                  THEN currentTime - SEGMENT_RETENTION_SECONDS ELSE 0
        kept == {i \in DOMAIN o.segments : o.segments[i].end >= cutoff}
        removeCount == IF kept = {} THEN Len(o.segments)
                       ELSE (CHOOSE i \in kept : \A j \in kept : i <= j) - 1
    IN IF o.segments = <<>> \/ removeCount = 0 THEN o
       ELSE [o EXCEPT
               !.segments = SubSeq(@, removeCount + 1, Len(@)),
               !.currentSegmentIndex =
                  IF @ = -1 THEN -1
                  ELSE IF @ - removeCount < -1 THEN -1 ELSE @ - removeCount]

\* updateDisplay(currentTime)
updateDisplay(o, currentTime) ==
    LET o1 == pruneOldSegments(o, currentTime)
        segmentIndex == findSegmentIndex(o1, currentTime)
    IN IF segmentIndex = -1 THEN hide(o1)
       ELSE IF segmentIndex = o1.currentSegmentIndex THEN o1
       ELSE show([o1 EXCEPT !.currentSegmentIndex = segmentIndex],
                 o1.segments[segmentIndex + 1])

\* addDeepgramTranscript(data) at video time currentTime
addDeepgramTranscript(o, text, isFinal, currentTime) ==
    IF Trim(text) = <<>> THEN o
    ELSE LET segment ==
                 [text |-> Trim(text), start |-> currentTime,
                  end |-> currentTime + (IF isFinal THEN FINAL_DISPLAY_SECONDS
                                          ELSE INTERIM_DISPLAY_SECONDS),
                  isFinal |-> isFinal]
             o1 == IF isFinal
                   THEN [o EXCEPT !.segments = SortByStart(Append(@, segment))]
                   ELSE o
         IN showDirect(o1, segment)

\* the stale-arrival extension of addSubtitleData
extendStale(seg, currentVideoTime) ==
    [text |-> seg.text, start |-> seg.start,
     end |-> IF currentVideoTime - seg.end > 0
             THEN currentVideoTime + FINAL_DISPLAY_SECONDS ELSE seg.end,
     isFinal |-> FALSE]

\* addSubtitleData(data) for a batch of Whisper segments
addWhisperSegments(o, segs, currentVideoTime) ==
    IF segs = <<>> THEN o
    ELSE LET adjusted == [i \in DOMAIN segs |->
                             extendStale(segs[i], currentVideoTime)]
             o1 == [o EXCEPT !.segments = SortByStart(@ \o adjusted)]
         IN updateDisplay(pruneOldSegments(o1, currentVideoTime),
                          currentVideoTime)

\* addSubtitleData(data)
addSubtitleData(o, data, currentVideoTime) ==
    IF data.kind = "transcript"
    THEN addDeepgramTranscript(o, data.text, data.isFinal, currentVideoTime)
    ELSE addWhisperSegments(o, data.segments, currentVideoTime)

\* clear()
clear(o) == [o EXCEPT !.container = <<>>, !.segments = <<>>,
                      !.currentSegmentIndex = -1]

\* new SubtitleOverlay()
NewOverlay == [NoOverlay EXCEPT !.exists = TRUE]

ViewOp(name, data) ==
    [op |-> name, text |-> data.text, isFinal |-> data.isFinal,
     before |-> overlay.container]
NoData == [kind |-> "none", text |-> <<>>, isFinal |-> FALSE]

\* the video times the page reports, and the payloads of SUBTITLE_UPDATE
VideoTimes == {0, 1, 4, 5, 40}
Texts == {<<>>, <<" ">>, <<"a">>, <<"b", " ">>}
Transcripts ==
    {[kind |-> "transcript", text |-> t, isFinal |-> f] :
        t \in Texts, f \in BOOLEAN}
WhisperSeg(text, start, end) == [text |-> text, start |-> start, end |-> end]
SegmentBatches ==
    {[kind |-> "segments", text |-> <<>>, isFinal |-> FALSE, segments |-> b] :
        b \in {<<>>, <<WhisperSeg(<<"c">>, 0, 2)>>,
                <<WhisperSeg(<<"d">>, 4, 5), WhisperSeg(<<"e">>, 2, 4)>>}}

contentUnchanged ==
    UNCHANGED <<clientVars, svcVars, whisperVars, coreVars, moreVars>>

\* message ENABLE_SUBTITLES: enableSubtitles() on a page with a video
EnableSubtitles ==
    /\ overlay' = IF overlay.exists THEN overlay ELSE NewOverlay
    /\ viewOp' = ViewOp("enableSubtitles", NoData)
    /\ UNCHANGED <<videoTime, deliveries>>
    /\ contentUnchanged

\* message DISABLE_SUBTITLES: disableSubtitles(), overlay.destroy()
DisableSubtitles ==
    /\ overlay' = NoOverlay
    /\ viewOp' = ViewOp("disableSubtitles", NoData)
    /\ UNCHANGED <<videoTime, deliveries>>
    /\ contentUnchanged

\* message SUBTITLE_UPDATE: ignored without overlay, else addSubtitleData
SubtitleUpdate(data) ==
    /\ deliveries < MaxDeliveries
    /\ deliveries' = deliveries + 1
    /\ overlay' = IF overlay.exists
                  THEN addSubtitleData(overlay, data, videoTime) ELSE overlay
    /\ viewOp' = ViewOp(data.kind, data)
    /\ UNCHANGED videoTime
    /\ contentUnchanged

\* message CLEAR_SUBTITLES
ClearSubtitles ==
    /\ overlay.exists
    /\ overlay' = clear(overlay)
    /\ viewOp' = ViewOp("clear", NoData)
    /\ UNCHANGED <<videoTime, deliveries>>
    /\ contentUnchanged

\* the video's timeupdate event while it plays: VideoMonitor.handleTimeUpdate
TimeUpdate(t) ==
    /\ t > videoTime
    /\ videoTime' = t
    /\ overlay' = IF overlay.exists THEN updateDisplay(overlay, t) ELSE overlay
    /\ viewOp' = ViewOp("timeupdate", NoData)
    /\ UNCHANGED deliveries
    /\ contentUnchanged

\* the video's seeked event: VideoMonitor.handleSeeked
Seeked(t) ==
    /\ t # videoTime
    /\ videoTime' = t
    /\ overlay' = IF overlay.exists THEN updateDisplay(overlay, t) ELSE overlay
    /\ viewOp' = ViewOp("seeked", NoData)
    /\ UNCHANGED deliveries
    /\ contentUnchanged

\* the content script on its own
InitView == ClientInit /\ SvcInit /\ RestInit /\ sockLimit = MaxSocketsSmall

NextView ==
    \/ EnableSubtitles
    \/ DisableSubtitles
    \/ \E data \in Transcripts \cup SegmentBatches : SubtitleUpdate(data)
    \/ ClearSubtitles
    \/ \E t \in VideoTimes : TimeUpdate(t)
    \/ \E t \in VideoTimes : Seeked(t)

SpecView == InitView /\ [][NextView]_vars

\* C17: the overlay's container never holds more than one caption, so at
\* most one interim is on screen; a transcript with a text replaces what
\* was shown, and after a final the container holds exactly one caption,
\* the final's trimmed text, not marked interim.
C17_FinalReplacesInterim ==
    /\ [](Len(overlay.container) <= 1)
    /\ [][(viewOp'.op = "transcript" /\ overlay.exists
            /\ Trim(viewOp'.text) # <<>>)
            => /\ overlay'.container =
                     <<Caption(Trim(viewOp'.text), ~viewOp'.isFinal)>>
               /\ overlay'.display = "flex"]_vars

\* a final has just replaced a live interim with another text
C17_Witness ==
    /\ viewOp.op = "transcript" /\ viewOp.isFinal
    /\ viewOp.before = <<Caption(<<"a">>, TRUE)>>
    /\ overlay.container = <<Caption(<<"b">>, FALSE)>>

\* C21 (as claimed): after every update of the overlay at video time t
\* (a batch of segments stored, a timeupdate or a seeked event) no stored
\* segment has ended more than SEGMENT_RETENTION_SECONDS before t.
C21_NothingBeyondRetention ==
    [][(viewOp'.op \in {"segments", "timeupdate", "seeked"}
         /\ overlay'.exists)
        => \A i \in DOMAIN overlay'.segments :
              overlay'.segments[i].end
                  >= videoTime' - SEGMENT_RETENTION_SECONDS]_vars

\* the streaming session together with the page's video: the client, its
\* platform, and the seeked events of the video the captions belong to
InitSeek == ClientInit /\ SvcInit /\ RestInit /\ sockLimit = MaxSocketsSmall

NextSeek ==
    \/ Next
    \/ EnableSubtitles
    \/ \E t \in VideoTimes : Seeked(t)

SpecSeek == InitSeek /\ [][NextSeek]_vars

\* C19 (as claimed): a seeked event of the video while a streaming session
\* is open terminates that session: the socket it holds is closed with a
\* close frame and is no longer the session's socket (a new session is
\* opened afterwards).
C19_SeekRestartsSession ==
    [][(viewOp'.op = "seeked" /\ overlay.exists
        /\ connectionState = CONNECTED)
         => /\ websocket' # websocket
            /\ sockets'[websocket].st \in {"closing", "closed"}]_vars

(***************************************************************************)
(* Text similarity (lib/text-similarity) and OverlapProcessor              *)
(* (background/subtitle-processor).  A text is a sequence of characters;   *)
(* a ratio is compared by cross-multiplying.                               *)
(***************************************************************************)
overlapDuration == 1000
Punctuation == {".", ",", "!", "?"}
LowerCase(ch) == IF ch = "A" THEN "a" ELSE IF ch = "B" THEN "b" ELSE ch

\* replace(/\s+/g, ' '): runs of blanks become one blank
RECURSIVE CollapseBlanks(_)
CollapseBlanks(text) ==
    IF Len(text) < 2 THEN text
    ELSE IF text[1] = " " /\ text[2] = " " THEN CollapseBlanks(Tail(text))
    ELSE <<text[1]>> \o CollapseBlanks(Tail(text))

\* normalizeText(text) with its default options
normalizeText(text) ==
    LET kept == SelectSeq(text, LAMBDA ch : ch \notin Punctuation)
        lower == [i \in DOMAIN kept |-> LowerCase(kept[i])]
    IN Trim(CollapseBlanks(lower))

Min2(a, b) == IF a < b THEN a ELSE b
Max2(a, b) == IF a > b THEN a ELSE b
Abs(a) == IF a < 0 THEN -a ELSE a

\* levenshteinDistance(source, target), case-insensitive
RECURSIVE levenshteinDistance(_, _)
levenshteinDistance(source, target) ==
    IF source = <<>> THEN Len(target)
    ELSE IF target = <<>> THEN Len(source)
    ELSE LET cost == IF LowerCase(source[Len(source)])
                          = LowerCase(target[Len(target)]) THEN 0 ELSE 1
             s1 == SubSeq(source, 1, Len(source) - 1)
             t1 == SubSeq(target, 1, Len(target) - 1)
         IN Min2(Min2(levenshteinDistance(s1, target) + 1,
                      levenshteinDistance(source, t1) + 1),
                 levenshteinDistance(s1, t1) + cost)

\* calculateSimilarity(text1, text2, {normalize: true}) as the ratio
\* num / den (den > 0)
calculateSimilarity(text1, text2) ==
    LET str1 == normalizeText(text1)
        str2 == normalizeText(text2)
        maxLen == Max2(Len(str1), Len(str2))
        lengthDiff == Abs(Len(str1) - Len(str2))
    IN IF str1 = str2 THEN [num |-> 1, den |-> 1]
       ELSE IF maxLen > 0 /\ 2 * lengthDiff > maxLen THEN [num |-> 0, den |-> 1]
       ELSE [num |-> maxLen - levenshteinDistance(str1, str2), den |-> maxLen]

Chars(text) == {text[i] : i \in DOMAIN text}

\* quickSimilarityCheck(text1, text2, 0.8).  In floating point 1 - 0.8 is
\* just below 0.2, so a length difference of exactly one fifth is already
\* "more than 1 - threshold".
quickSimilarityCheck(text1, text2) ==
    LET str1 == normalizeText(text1)
        str2 == normalizeText(text2)
        maxLen == Max2(Len(str1), Len(str2))
        lengthDiff == Abs(Len(str1) - Len(str2))
        inter == Chars(str1) \cap Chars(str2)
        union == Chars(str1) \cup Chars(str2)
    IN IF str1 = str2 THEN TRUE
       ELSE IF maxLen > 0 /\ 5 * lengthDiff >= maxLen THEN FALSE
       ELSE 100 * Cardinality(inter) >= 48 * Cardinality(union)

\* _calculateTimeOverlap(seg1, seg2)
calculateTimeOverlap(seg1, seg2) ==
    Max2(0, Min2(seg1.end, seg2.end) - Max2(seg1.start, seg2.start))

\* the pair test without the quick pre-check
IsDuplicateOfUnchecked(prev, curr) ==
    LET timeOverlap == calculateTimeOverlap(prev, curr)
        minDuration == Min2(prev.end - prev.start, curr.end - curr.start)
        sim == calculateSimilarity(prev.text, curr.text)
    IN /\ minDuration > 0
       /\ \/ 10 * timeOverlap > 8 * minDuration
          \/ /\ 10 * timeOverlap > 5 * minDuration
             /\ 10 * sim.num > 8 * sim.den

\* the test of _findDuplicates on one pair (prev, curr)
IsDuplicateOf(prev, curr) ==
    LET timeOverlap == calculateTimeOverlap(prev, curr)
        minDuration == Min2(prev.end - prev.start, curr.end - curr.start)
        sim == calculateSimilarity(prev.text, curr.text)
    IN /\ quickSimilarityCheck(prev.text, curr.text)
       /\ minDuration > 0
       /\ \/ 10 * timeOverlap > 8 * minDuration
          \/ /\ 10 * timeOverlap > 5 * minDuration
             /\ 10 * sim.num > 8 * sim.den

\* a shift that forgets the start
adjustTimestampsEndOnly(segments, chunkStartTime) ==
    [i \in DOMAIN segments |->
        [segments[i] EXCEPT !.end = @ + chunkStartTime]]

\* _adjustTimestamps(segments, chunkStartTime)
adjustTimestamps(segments, chunkStartTime) ==
    [i \in DOMAIN segments |->
        [segments[i] EXCEPT !.start = @ + chunkStartTime,
                            !.end = @ + chunkStartTime]]

\* _findDuplicates: the indices, in currentSegments, of the duplicates
findDuplicates(previousSegments, currentSegments, overlapStart, overlapEnd) ==
    LET inWindow(seg) == seg.end > overlapStart /\ seg.start < overlapEnd
    IN {i \in DOMAIN currentSegments :
          /\ inWindow(currentSegments[i])
          /\ \E j \in DOMAIN previousSegments :
                /\ inWindow(previousSegments[j])
                /\ IsDuplicateOf(previousSegments[j], currentSegments[i])}

\* a filter that keeps only what starts after the overlap window
KeptIndicesBeyondWindow(previousSegments, currentSegments, chunkStartTime) ==
    {i \in DOMAIN currentSegments :
        currentSegments[i].start
            >= chunkStartTime + (overlapDuration \div 1000)}

\* the indices _processOverlap keeps
KeptIndices(previousSegments, currentSegments, chunkStartTime) ==
    LET overlapStart == chunkStartTime
        overlapEnd == chunkStartTime + (overlapDuration \div 1000)
        duplicateIndices == findDuplicates(previousSegments, currentSegments,
                                           overlapStart, overlapEnd)
    IN {i \in DOMAIN currentSegments :
          \/ currentSegments[i].start >= overlapEnd
          \/ i \notin duplicateIndices}

\* Array.prototype.filter by a set of indices
RECURSIVE FilterIndices(_, _, _)
FilterIndices(seq, keep, i) ==
    IF i > Len(seq) THEN <<>>
    ELSE (IF i \in keep THEN <<seq[i]>> ELSE <<>>)
         \o FilterIndices(seq, keep, i + 1)

\* _processOverlap(previousSegments, currentSegments, chunkStartTime)
processOverlap(previousSegments, currentSegments, chunkStartTime) ==
    FilterIndices(currentSegments,
                  KeptIndices(previousSegments, currentSegments,
                              chunkStartTime), 1)

\* a new OverlapProcessor, and its state after reset()
NewProcessor == [hasPrevious |-> FALSE, previousSegments |-> <<>>,
                 processedSegments |-> <<>>, chunkCount |-> 0]

\* reset()
reset(pr) == NewProcessor

\* `!this.previousSegments` in process()
IsFirstChunk(pr) == ~pr.hasPrevious

\* process(response, chunkStartTime): the processor afterwards and what the
\* call returns; a response without segments throws after the count
process(pr, response, chunkStartTime) ==
    LET pr1 == [pr EXCEPT !.chunkCount = @ + 1]
        adjusted == adjustTimestamps(response.segments, chunkStartTime)
    IN IF ~response.valid
       THEN [processor |-> pr1, thrown |-> TRUE, returned |-> <<>>]
       ELSE IF IsFirstChunk(pr1)
       THEN [processor |-> [pr1 EXCEPT !.hasPrevious = TRUE,
                                       !.previousSegments = adjusted,
                                       !.processedSegments = adjusted],
             thrown |-> FALSE, returned |-> adjusted]
       ELSE LET newSegments == processOverlap(pr1.previousSegments, adjusted,
                                              chunkStartTime)
            IN [processor |-> [pr1 EXCEPT
                                 !.previousSegments = adjusted,
                                 !.processedSegments = @ \o newSegments],
                thrown |-> FALSE, returned |-> newSegments]

(***************************************************************************)
(* The Whisper SubtitleService (background/service-worker): enable,        *)
(* disable, and one processChunk invocation per AUDIO_CHUNK_READY message. *)
(* The invocations run concurrently: each is suspended at its awaits.      *)
(***************************************************************************)
CHUNK_DURATION == 3
OVERLAP_DURATION == 1
WhisperTab == 1

WOp(op, job, ran) == [op |-> op, job |-> job, ran |-> ran]

whisperUnchanged ==
    UNCHANGED <<clientVars, svcVars, viewVars, coreVars, moreVars>>

\* cleanup(): the capture is dropped, the processor reset, the tab forgotten
cleanupWhisper(w) == [w EXCEPT !.audioCapture = FALSE, !.currentTabId = 0]

\* enable(tabId) up to `await this.audioCapture.start(tabId)`
WhisperEnableStart ==
    /\ whisper.enablePc = "idle"
    /\ chunker.session < MaxEnables
    /\ IF whisper.isActive
       THEN /\ wOp' = WOp("enable", 0, FALSE)
            /\ UNCHANGED whisper
       ELSE /\ wOp' = WOp("enable", 0, TRUE)
            /\ whisper' = [whisper EXCEPT !.currentTabId = WhisperTab,
                                          !.audioCapture = TRUE,
                                          !.enablePc = "starting"]
    /\ UNCHANGED <<processor, chunker, jobs, sent>>
    /\ whisperUnchanged

\* enable(tabId) after the await: active, or cleanup() when start() failed;
\* a capture that started begins a new run of chunks at index 0
WhisperEnableDone(ok) ==
    /\ whisper.enablePc = "starting"
    /\ wOp' = WOp("enableDone", 0, ok)
    /\ IF ok
       THEN /\ whisper' = [whisper EXCEPT !.isActive = TRUE,
                                          !.enablePc = "idle"]
            /\ chunker' = [session |-> chunker.session + 1, chunkIndex |-> 0]
            /\ UNCHANGED processor
       ELSE /\ whisper' = [cleanupWhisper(whisper) EXCEPT !.enablePc = "idle"]
            /\ processor' = reset(processor)
            /\ UNCHANGED chunker
    /\ UNCHANGED <<jobs, sent>>
    /\ whisperUnchanged

\* disable(): nothing when not active, else cleanup() and isActive = false
WhisperDisable ==
    /\ wOp' = WOp("disable", 0, whisper.isActive)
    /\ IF whisper.isActive
       THEN /\ whisper' = [cleanupWhisper(whisper) EXCEPT !.isActive = FALSE]
            /\ processor' = reset(processor)
       ELSE UNCHANGED <<whisper, processor>>
    /\ UNCHANGED <<chunker, jobs, sent>>
    /\ whisperUnchanged

\* the chunker's timestamps: a chunk every CHUNK_DURATION - OVERLAP_DURATION
ChunkStartTime(chunkIndex) == chunkIndex * (CHUNK_DURATION - OVERLAP_DURATION)

\* message AUDIO_CHUNK_READY: processChunk(data) up to the await of
\* whisperClient.transcribe
ChunkReady ==
    /\ whisper.isActive /\ whisper.audioCapture
    /\ Len(jobs) < MaxChunks
    /\ jobs' = Append(jobs, [pc |-> "transcribing",
                             session |-> chunker.session,
                             chunkIndex |-> chunker.chunkIndex,
                             startTime |-> ChunkStartTime(chunker.chunkIndex),
                             segments |-> <<>>])
    /\ chunker' = [chunker EXCEPT !.chunkIndex = @ + 1]
    /\ wOp' = WOp("processChunk", Len(jobs) + 1, TRUE)
    /\ UNCHANGED <<whisper, processor, sent>>
    /\ whisperUnchanged

\* what whisperClient.transcribe may answer for a chunk of three seconds
Seg(text, start, end) == [text |-> text, start |-> start, end |-> end]
Transcriptions ==
    {[ok |-> FALSE, valid |-> FALSE, segments |-> <<>>]}
    \cup {[ok |-> TRUE, valid |-> TRUE, segments |-> b] :
            b \in {<<>>,
                   <<Seg(<<"a">>, 0, 2)>>,
                   <<Seg(<<"a">>, 0, 1), Seg(<<"b">>, 2, 3)>>,
                   <<Seg(<<"B", ".">>, 0, 1), Seg(<<"c">>, 1, 3)>>}}

\* processChunk after transcribe settled: overlapProcessor.process, then
\* up to the await of trackWhisperUsage; a rejection ends in the catch
Transcribed(j, transcription) ==
    /\ j \in DOMAIN jobs
    /\ jobs[j].pc = "transcribing"
    /\ wOp' = WOp("process", j, transcription.ok)
    /\ IF transcription.ok
       THEN LET r == process(processor, transcription, jobs[j].startTime)
            IN /\ processor' = r.processor
               /\ jobs' = [jobs EXCEPT ![j].pc = "tracking",
                                       ![j].segments = r.returned]
       ELSE /\ jobs' = [jobs EXCEPT ![j].pc = "done"]
            /\ UNCHANGED processor
    /\ UNCHANGED <<whisper, chunker, sent>>
    /\ whisperUnchanged

\* sendSubtitleToContent(subtitle): nothing without a current tab
sendSubtitleToContent(log, w, subtitle) ==
    IF w.currentTabId = 0 THEN log ELSE Append(log, subtitle)

\* processChunk after trackWhisperUsage settled: the new segments, if any,
\* go to the content script
Tracked(j, ok) ==
    /\ j \in DOMAIN jobs
    /\ jobs[j].pc = "tracking"
    /\ wOp' = WOp("send", j, ok /\ jobs[j].segments # <<>>)
    /\ jobs' = [jobs EXCEPT ![j].pc = "done"]
    /\ sent' = IF ok /\ jobs[j].segments # <<>>
               THEN sendSubtitleToContent(sent, whisper,
                        [session |-> jobs[j].session,
                         chunkIndex |-> jobs[j].chunkIndex,
                         segments |-> jobs[j].segments])
               ELSE sent
    /\ UNCHANGED <<whisper, processor, chunker>>
    /\ whisperUnchanged

\* the Whisper service with its chunks, and the page's video being sought
\* back and forth between two positions
SeekTimes == {0, 4}
InitWhisper == ClientInit /\ SvcInit /\ RestInit /\ sockLimit = MaxSocketsSmall

NextWhisper ==
    \/ WhisperEnableStart
    \/ \E ok \in BOOLEAN : WhisperEnableDone(ok)
    \/ WhisperDisable
    \/ ChunkReady
    \/ \E j \in 1..MaxChunks, t \in Transcriptions : Transcribed(j, t)
    \/ \E j \in 1..MaxChunks, ok \in BOOLEAN : Tracked(j, ok)
    \/ \E t \in SeekTimes : Seeked(t)

SpecWhisper == InitWhisper /\ [][NextWhisper]_vars

\* the start times of the segments sent for session n, in the order sent
RECURSIVE Flatten(_)
Flatten(batches) ==
    IF batches = <<>> THEN <<>>
    ELSE Head(batches).segments \o Flatten(Tail(batches))

StartsSent(n) ==
    LET segs == Flatten(SelectSeq(sent, LAMBDA b : b.session = n))
    IN [i \in DOMAIN segs |-> segs[i].start]

NonDecreasing(seq) ==
    \A i \in DOMAIN seq : \A k \in DOMAIN seq : i < k => seq[i] <= seq[k]

\* C18 (as claimed): within one session the segments sent to the content
\* script have non-decreasing start times, however the recognitions of the
\* session's chunks interleave.
C18_SegmentsInStartOrder ==
    \A n \in 1..MaxEnables : NonDecreasing(StartsSent(n))

\* C20 (as claimed): every disable() of the active service and every seeked
\* event of the video while the service is active leaves the overlap
\* processor without retained state, so that the next chunk processed is
\* treated as a first chunk.
C20_ResetOnDisableAndSeek ==
    /\ [][(wOp'.op = "disable" /\ whisper.isActive /\ ~whisper'.isActive)
            => (processor' = NewProcessor /\ IsFirstChunk(processor'))]_vars
    /\ [][(viewOp'.op = "seeked" /\ videoTime' # videoTime
            /\ whisper.isActive)
            => (processor' = NewProcessor /\ IsFirstChunk(processor'))]_vars

(***************************************************************************)
(* Sentence merging (lib/language-rules, OverlapProcessor                  *)
(* .mergeBrokenSentences) with the rules for Latin-script text, which are  *)
(* the ones 'en' and 'auto' select for the texts used here.                *)
(***************************************************************************)
\* OVERLAP_CONFIG.mergeTimeGap (0.3 s), in tenths of a second
mergeTimeGap == 3

EndsWith(text, suffix) ==
    /\ Len(text) >= Len(suffix)
    /\ SubSeq(text, Len(text) - Len(suffix) + 1, Len(text)) = suffix

WordChars == {"a", "b", "c", "d", "e", "g", "i", "A", "B", "D", "J", "M",
              "P", "S", "f", "h", "o", "r", "s", "t", "v"}

Abbreviations ==
    {<<"M", "r">>, <<"M", "r", "s">>, <<"M", "s">>, <<"D", "r">>,
     <<"P", "r", "o", "f">>, <<"S", "r">>, <<"J", "r">>, <<"e", "t", "c">>,
     <<"e", ".", "g">>, <<"i", ".", "e">>, <<"v", "s">>,
     <<"P", "h", ".", "D">>}

\* /\b(Mr|Mrs|...)\.$/: an abbreviation that starts at a word boundary
EndsWithAbbreviation(text) ==
    \E abbr \in Abbreviations :
       /\ EndsWith(text, abbr \o <<".">>)
       /\ LET before == Len(text) - Len(abbr) - 1
          IN before = 0 \/ text[before] \notin WordChars

LastChar(text) == text[Len(text)]

\* LanguageRules._shouldMergeEnglish(seg1, seg2)
shouldMergeEnglish(seg1, seg2) ==
    LET text1 == Trim(seg1.text)
        text2 == Trim(seg2.text)
    IN IF text1 # <<>> /\ LastChar(text1) = "."
       THEN EndsWithAbbreviation(text1)
       ELSE IF text1 # <<>> /\ LastChar(text1) \in {"!", "?", ";", ":"}
       THEN FALSE
       ELSE IF text1 # <<>> /\ LastChar(text1) = ","
       THEN TRUE
       ELSE \/ text1 # <<>> /\ LastChar(text1) = "\""
            \/ text2 # <<>> /\ text2[1] = "\""

\* LanguageRules.shouldMerge(seg1, seg2, language, mergeTimeGap)
shouldMerge(seg1, seg2) ==
    IF 10 * (seg2.start - seg1.end) > mergeTimeGap THEN FALSE
    ELSE shouldMergeEnglish(seg1, seg2)

\* two segments merged: the texts joined by a blank, the end of the second
MergeInto(previous, current) ==
    [previous EXCEPT !.text = TrimEnd(@) \o <<" ">> \o TrimStart(current.text),
                     !.end = current.end]

\* mergeBrokenSentences(segments, language)
RECURSIVE MergeFrom(_, _, _)
MergeFrom(merged, segments, i) ==
    IF i > Len(segments) THEN merged
    ELSE LET previous == merged[Len(merged)]
             current == segments[i]
         IN IF shouldMerge(previous, current)
            THEN MergeFrom([merged EXCEPT ![Len(merged)] =
                                MergeInto(previous, current)],
                           segments, i + 1)
            ELSE MergeFrom(Append(merged, current), segments, i + 1)

mergeBrokenSentences(segments) ==
    IF segments = <<>> THEN <<>>
    ELSE MergeFrom(<<segments[1]>>, segments, 2)

(***************************************************************************)
(* The subtitle core on its own: process() applied to one transcription    *)
(* after another, mergeBrokenSentences applied to what it returned, and    *)
(* the returned segments handed to the overlay of the content script.      *)
(***************************************************************************)
\* what Whisper answers for a chunk: segments in time order, none ending
\* before it starts, at most CHUNK_DURATION long in all
CoreTranscriptions ==
    {[ok |-> TRUE, valid |-> TRUE, segments |-> b] :
        b \in {<<>>,
               <<Seg(<<"a", "b", "c">>, 0, 3)>>,
               <<Seg(<<"a", "b", "d">>, 0, 3)>>,
               <<Seg(<<"a", ",">>, 0, 1), Seg(<<"A", "b", ".">>, 1, 3)>>,
               <<Seg(<<"a", "b">>, 0, 1), Seg(<<"a", "c">>, 2, 3)>>,
               <<Seg(<<"a", "b", "c">>, 0, 1), Seg(<<"a", "b", "d">>, 2, 3)>>}}

\* the chunk start times handed to process(): the chunker's, and the
\* corrected ones of the time-synchronised service (video time minus the
\* chunk's duration, which is negative at the start of the video)
CoreStartTimes == {0 - CHUNK_DURATION, 0, 1}

\* the time the page's video has reached when a batch arrives late
CoreVideoTimes == {40}

CoreUnchanged == UNCHANGED <<clientVars, svcVars, viewVars, whisper, chunker,
                             jobs, sent, wOp, moreVars>>

\* overlapProcessor.process(transcription, startTime)
CoreProcess(transcription, startTime) ==
    /\ processor.chunkCount < MaxChunks
    /\ LET r == process(processor, transcription, startTime)
           current == adjustTimestamps(transcription.segments, startTime)
           first == IsFirstChunk(processor)
       IN /\ processor' = r.processor
          /\ batch' = r.returned
          /\ coreOp' = [op |-> "process", first |-> first,
                        start |-> startTime,
                        previous |-> processor.previousSegments,
                        current |-> current,
                        duplicates |->
                            IF first THEN {}
                            ELSE findDuplicates(
                                   processor.previousSegments, current,
                                   startTime,
                                   startTime + (overlapDuration \div 1000)),
                        returned |-> r.returned]
    /\ CoreUnchanged

\* a response without a segments field, as the unit tests hand to process()
NoSegments == [ok |-> TRUE, valid |-> FALSE, segments |-> <<>>]

\* overlapProcessor.process(response, startTime) throwing INVALID_INPUT
CoreProcessInvalid(startTime) ==
    /\ processor.chunkCount < MaxChunks
    /\ LET r == process(processor, NoSegments, startTime)
       IN /\ r.thrown
          /\ processor' = r.processor
          /\ coreOp' = [NoCoreOp EXCEPT !.op = "processThrown",
                                        !.start = startTime]
    /\ UNCHANGED batch
    /\ CoreUnchanged

\* overlapProcessor.mergeBrokenSentences(segments) on the segments returned
CoreMerge ==
    /\ coreOp.op = "process"
    /\ batch' = mergeBrokenSentences(batch)
    /\ coreOp' = [coreOp EXCEPT !.op = "merge", !.returned = batch']
    /\ UNCHANGED processor
    /\ CoreUnchanged

\* the SUBTITLE_UPDATE message that carries the returned segments
BatchData == [kind |-> "segments", text |-> <<>>, isFinal |-> FALSE,
              segments |-> batch]

\* sendSubtitleToContent and the content script's listener: the segments
\* returned are sent once, if there are any, and handled as SUBTITLE_UPDATE
CoreSend ==
    /\ coreOp.op \in {"process", "merge"}
    /\ batch # <<>>
    /\ deliveries < MaxDeliveries
    /\ deliveries' = deliveries + 1
    /\ overlay' = IF overlay.exists
                  THEN addSubtitleData(overlay, BatchData, videoTime)
                  ELSE overlay
    /\ viewOp' = ViewOp("segments", BatchData)
    /\ coreOp' = [coreOp EXCEPT !.op = "send"]
    /\ UNCHANGED <<videoTime, batch, processor>>
    /\ UNCHANGED <<clientVars, svcVars, whisper, chunker, jobs, sent, wOp,
                   moreVars>>

InitCore == ClientInit /\ SvcInit /\ RestInit /\ sockLimit = MaxSocketsSmall

NextCore ==
    \/ \E t \in CoreTranscriptions, st \in CoreStartTimes : CoreProcess(t, st)
    \/ \E st \in CoreStartTimes : CoreProcessInvalid(st)
    \/ CoreMerge
    \/ CoreSend
    \/ EnableSubtitles
    \/ \E t \in CoreVideoTimes : TimeUpdate(t)

SpecCore == InitCore /\ [][NextCore]_vars

WellFormed(segments) ==
    \A i \in DOMAIN segments : segments[i].start <= segments[i].end

\* C22: every segment the core returns or retains, and every segment the
\* overlay stores, starts no later than it ends; this includes segments
\* shifted by a (possibly negative) chunk start time, merged sentences and
\* segments extended because they arrived late.
C22_StartNotAfterEnd ==
    /\ WellFormed(batch)
    /\ WellFormed(coreOp.returned)
    /\ WellFormed(processor.previousSegments)
    /\ WellFormed(processor.processedSegments)
    /\ WellFormed(overlay.segments)

\* a sentence merged from two segments, shifted by -3 s and extended on its
\* late arrival at 40 s, is stored by the overlay
C22_Witness ==
    /\ coreOp.op = "send"
    /\ \E i \in DOMAIN overlay.segments :
          /\ overlay.segments[i].start = 0 - CHUNK_DURATION
          /\ overlay.segments[i].end = 40 + FINAL_DISPLAY_SECONDS
          /\ overlay.segments[i].text = <<"a", ",", " ", "A", "b", ".">>

\* the overlap window of the chunk the last process() call was given
InOverlapWindow(seg) ==
    /\ seg.end > coreOp.start
    /\ seg.start < coreOp.start + 1

\* the two readings of the quick check on the normalised texts: the
\* character sets alone, and what quickSimilarityCheck accepts
JaccardPasses(p, c) ==
    LET chars1 == Chars(normalizeText(p.text))
        chars2 == Chars(normalizeText(c.text))
    IN /\ chars1 \cup chars2 # {}
       /\ 100 * Cardinality(chars1 \cap chars2)
             >= 48 * Cardinality(chars1 \cup chars2)

QuickPasses(p, c) ==
    LET len1 == Len(normalizeText(p.text))
        len2 == Len(normalizeText(c.text))
        longest == IF len1 > len2 THEN len1 ELSE len2
        diff == IF len1 > len2 THEN len1 - len2 ELSE len2 - len1
    IN \/ normalizeText(p.text) = normalizeText(c.text)
       \/ (5 * diff < longest /\ JaccardPasses(p, c))

\* the time and text rule for a previous segment p and a current segment c,
\* with timeOverlapRatio = overlap(p, c) / min(len(p), len(c))
RatioRule(p, c) ==
    LET lo == IF p.start > c.start THEN p.start ELSE c.start
        hi == IF p.end < c.end THEN p.end ELSE c.end
        overlap == IF hi > lo THEN hi - lo ELSE 0
        lenP == p.end - p.start
        lenC == c.end - c.start
        shortest == IF lenP < lenC THEN lenP ELSE lenC
        sim == calculateSimilarity(p.text, c.text)
    IN /\ shortest > 0
       /\ \/ 10 * overlap > 8 * shortest
          \/ (10 * overlap > 5 * shortest /\ 10 * sim.num > 8 * sim.den)

\* the current segments marked when Passes is the quick check
MarkedWith(Passes(_, _)) ==
    {i \in DOMAIN coreOp.current :
        /\ InOverlapWindow(coreOp.current[i])
        /\ \E k \in DOMAIN coreOp.previous :
              /\ InOverlapWindow(coreOp.previous[k])
              /\ Passes(coreOp.previous[k], coreOp.current[i])
              /\ RatioRule(coreOp.previous[k], coreOp.current[i])}

C24_ReturnsNonDuplicates ==
    (coreOp.op = "process" /\ ~coreOp.first)
    => LET keep == DOMAIN coreOp.current \ coreOp.duplicates
           rank(i) == Cardinality({k \in keep : k <= i})
       IN /\ Len(coreOp.returned) = Cardinality(keep)
          /\ \A i \in keep : coreOp.returned[rank(i)] = coreOp.current[i]
          /\ \A i \in DOMAIN coreOp.current :
                ~InOverlapWindow(coreOp.current[i]) => i \in keep

\* of two current segments the one in the window is dropped as a duplicate
\* and the one after the window is returned
C24_Witness ==
    /\ coreOp.op = "process" /\ ~coreOp.first
    /\ Len(coreOp.current) = 2
    /\ coreOp.duplicates = {1}
    /\ coreOp.returned = <<coreOp.current[2]>>
    /\ ~InOverlapWindow(coreOp.current[2])

(***************************************************************************)
(* DeepgramKeyManager (lib/deepgram-key-manager) over chrome.storage.local.*)
(* A call is suspended at its awaits (fetch, encrypt, storage.set); each   *)
(* storage call (set, get, remove) takes effect in one step.  An API key   *)
(* is its body, whether blanks surround it, and whether the body has the   *)
(* accepted form.                                                          *)
(***************************************************************************)
ApiKeys ==
    {[body |-> "k1", padded |-> pd, wellFormed |-> wf] :
        pd \in BOOLEAN, wf \in BOOLEAN}

\* apiKey.trim()
TrimKey(apiKey) == [apiKey EXCEPT !.padded = FALSE]

\* validateFormat(apiKey): the trimmed key, or DEEPGRAM_API_KEY_INVALID
validateFormat(apiKey) ==
    IF apiKey.wellFormed
    THEN [error |-> "none", key |-> TrimKey(apiKey)]
    ELSE [error |-> "DEEPGRAM_API_KEY_INVALID", key |-> TrimKey(apiKey)]

\* how the fetch of verifyKey may settle: a transport failure, or a
\* response with a status; the body of a 200 may fail to parse as JSON
\* (that of an error response is read with a catch)
HttpStatuses == {200, 401, 403, 404, 429, 500, 503}
FetchOutcomes ==
    {[kind |-> "transport", status |-> 0, json |-> FALSE],
     [kind |-> "response", status |-> 200, json |-> FALSE]}
    \cup {[kind |-> "response", status |-> st, json |-> TRUE] :
             st \in HttpStatuses}

\* a server-error test that knows only status 500
StatusErrorOnly500(status) ==
    IF status = 401 THEN "DEEPGRAM_API_KEY_INVALID"
    ELSE IF status = 403 THEN "DEEPGRAM_API_KEY_PERMISSION_DENIED"
    ELSE IF status = 429 THEN "DEEPGRAM_RATE_LIMIT_EXCEEDED"
    ELSE IF status = 500 THEN "DEEPGRAM_SERVICE_UNAVAILABLE"
    ELSE IF status \notin 200..299 THEN "UNKNOWN_ERROR"
    ELSE "none"

\* the status tests of verifyKey, in their order; response.ok is 200..299
StatusError(status) ==
    IF status = 401 THEN "DEEPGRAM_API_KEY_INVALID"
    ELSE IF status = 403 THEN "DEEPGRAM_API_KEY_PERMISSION_DENIED"
    ELSE IF status = 429 THEN "DEEPGRAM_RATE_LIMIT_EXCEEDED"
    ELSE IF status >= 500 THEN "DEEPGRAM_SERVICE_UNAVAILABLE"
    ELSE IF status \notin 200..299 THEN "UNKNOWN_ERROR"
    ELSE "none"

\* verifyKey after the fetch settled: anything thrown that is not a
\* BabelBridgeError (the fetch itself, response.json() of a good response)
\* becomes DEEPGRAM_NETWORK_ERROR
verifyOutcome(outcome) ==
    IF outcome.kind = "transport" THEN "DEEPGRAM_NETWORK_ERROR"
    ELSE IF StatusError(outcome.status) # "none"
    THEN StatusError(outcome.status)
    ELSE IF ~outcome.json THEN "DEEPGRAM_NETWORK_ERROR"
    ELSE "none"

KeyOp(op, call, outcome, error) ==
    [op |-> op, call |-> call, outcome |-> outcome, error |-> error,
     seen |-> EmptyStorage, got |-> NoKey]
NoOutcome == [kind |-> "none"]

\* a call in progress, and the slot of a call whose promise has settled
KeyCall(mode, apiKey, pc) == [mode |-> mode, apiKey |-> apiKey, pc |-> pc]
Settled == KeyCall("none", NoKey, "settled")

keyUnchanged == UNCHANGED <<stopVars, chunkVars, clientVars, svcVars, viewVars, whisperVars,
                            coreVars>>

\* verifyKey(apiKey) or verifyAndSave(apiKey) up to the await of fetch
KeyCallStart(mode, apiKey) ==
    /\ Len(keyCalls) < MaxKeyCalls
    /\ LET v == validateFormat(apiKey)
       IN /\ keyCalls' = Append(keyCalls,
                 IF v.error = "none" THEN KeyCall(mode, apiKey, "fetching")
                 ELSE Settled)
          /\ keyOp' = KeyOp("start", Len(keyCalls) + 1, NoOutcome, v.error)
    /\ UNCHANGED storage
    /\ keyUnchanged

\* the fetch of call k settles: verifyKey throws or returns, and
\* verifyAndSave goes on to CryptoUtils.encrypt
FetchSettled(k, outcome) ==
    /\ k \in DOMAIN keyCalls
    /\ keyCalls[k].pc = "fetching"
    /\ LET error == verifyOutcome(outcome)
       IN /\ keyCalls' = [keyCalls EXCEPT ![k] =
                 IF error = "none" /\ keyCalls[k].mode = "save"
                 THEN [@ EXCEPT !.pc = "encrypting"] ELSE Settled]
          /\ keyOp' = KeyOp("fetch", k, outcome, error)
    /\ UNCHANGED storage
    /\ keyUnchanged

\* CryptoUtils.encrypt(apiKey) of call k settles; on success
\* chrome.storage.local.set is called with the four entries
EncryptSettled(k, ok) ==
    /\ k \in DOMAIN keyCalls
    /\ keyCalls[k].pc = "encrypting"
    /\ keyCalls' = [keyCalls EXCEPT ![k] =
           IF ok THEN [@ EXCEPT !.pc = "storing"] ELSE Settled]
    /\ keyOp' = KeyOp("encrypt", k, NoOutcome,
                      IF ok THEN "none" ELSE "CRYPTO_ERROR")
    /\ UNCHANGED storage
    /\ keyUnchanged

\* a set that writes the encrypted key alone
WrittenKeyOnly(st, k, call) ==
    [st EXCEPT !.encrypted = [by |-> k, cipherOf |-> call.apiKey]]

\* the record after the set of call k: the four entries of that call
Written(st, k, call) ==
    [encrypted |-> [by |-> k, cipherOf |-> call.apiKey],
     verifiedAt |-> [by |-> k],
     scopes |-> [by |-> k],
     project |-> [by |-> k]]

\* a failing set that has written all the same
StoredAnyway(st, k, call, ok) == Written(st, k, call)

\* the outcome of chrome.storage.local.set on the record
Stored(st, k, call, ok) == IF ok THEN Written(st, k, call) ELSE st

\* chrome.storage.local.set of call k settles
StoreSettled(k, ok) ==
    /\ k \in DOMAIN keyCalls
    /\ keyCalls[k].pc = "storing"
    /\ storage' = Stored(storage, k, keyCalls[k], ok)
    /\ keyCalls' = [keyCalls EXCEPT ![k] = Settled]
    /\ keyOp' = KeyOp("store", k, NoOutcome,
                      IF ok THEN "none" ELSE "STORAGE_ERROR")
    /\ keyUnchanged

\* removeKey(): one remove of the four entries
RemoveKey ==
    /\ storage' = EmptyStorage
    /\ keyOp' = KeyOp("removeKey", 0, NoOutcome, "none")
    /\ UNCHANGED keyCalls
    /\ keyUnchanged

\* hasKey() / getKeyInfo(): one get; keyOp.seen is what it was answered
ReadKey(op) ==
    /\ keyOp' = [KeyOp(op, 0, NoOutcome, "none") EXCEPT !.seen = storage]
    /\ UNCHANGED <<storage, keyCalls>>
    /\ keyUnchanged

\* CryptoUtils.decrypt on the device that encrypted: the plaintext that
\* CryptoUtils.encrypt was given
decrypt(encrypted) == encrypted.cipherOf

\* getKey(): one get, then decrypt; nothing stored is
\* DEEPGRAM_API_KEY_NOT_FOUND, a decryption that throws is
\* DEEPGRAM_API_KEY_DECRYPT_FAILED
GetKey(ok) ==
    /\ keyOp' = IF storage.encrypted = Absent
                THEN KeyOp("getKey", 0, NoOutcome,
                           "DEEPGRAM_API_KEY_NOT_FOUND")
                ELSE IF ~ok
                THEN KeyOp("getKey", 0, NoOutcome,
                           "DEEPGRAM_API_KEY_DECRYPT_FAILED")
                ELSE [KeyOp("getKey", storage.encrypted.by, NoOutcome, "none")
                        EXCEPT !.got = decrypt(storage.encrypted)]
    /\ UNCHANGED <<storage, keyCalls>>
    /\ keyUnchanged

InitKey == ClientInit /\ SvcInit /\ RestInit /\ sockLimit = MaxSocketsSmall

NextKey ==
    \/ \E mode \in {"verify", "save"}, apiKey \in ApiKeys :
          KeyCallStart(mode, apiKey)
    \/ \E k \in 1..MaxKeyCalls, outcome \in FetchOutcomes :
          FetchSettled(k, outcome)
    \/ \E k \in 1..MaxKeyCalls, ok \in BOOLEAN : EncryptSettled(k, ok)
    \/ \E k \in 1..MaxKeyCalls, ok \in BOOLEAN : StoreSettled(k, ok)
    \/ RemoveKey
    \/ \E op \in {"hasKey", "getKeyInfo"} : ReadKey(op)
    \/ \E ok \in BOOLEAN : GetKey(ok)

SpecKey == InitKey /\ [][NextKey]_vars

\* the step just taken belongs to a verifyAndSave call (a call that fails
\* validateFormat has no later step, whichever its kind)
SaveStep ==
    /\ keyCalls' # keyCalls
    /\ \/ keyOp'.op = "start"
       \/ /\ keyOp'.op \in {"fetch", "encrypt", "store"}
          /\ keyCalls[keyOp'.call].mode = "save"

\* C25: a step at which a verifyAndSave call fails (format, verification,
\* encryption or the storage write) leaves every entry of the credential
\* record as it was; a failing call has changed nothing at its earlier
\* steps either, since only a successful write changes the record.
C25_FailedSaveLeavesStorage ==
    [][(SaveStep /\ (keyOp'.error # "none" \/ keyOp'.op # "store"))
        => storage' = storage]_vars

\* the storage write of a verifyAndSave call has failed and the record an
\* earlier call wrote is still there
C25_Witness ==
    /\ keyOp.op = "store" /\ keyOp.error = "STORAGE_ERROR"
    /\ storage.encrypted.by \notin {0, keyOp.call}
    /\ storage = Written(storage, storage.encrypted.by,
                         [apiKey |-> storage.encrypted.cipherOf])

\* the entries of a record all come from the call that wrote the key
WholeRecord(st) ==
    st.encrypted.by # 0
    => /\ st.verifiedAt.by = st.encrypted.by
       /\ st.scopes.by = st.encrypted.by
       /\ st.project.by = st.encrypted.by

C27_VerifyErrors ==
    [][(keyOp'.op = "fetch" /\ keyCalls' # keyCalls)
        => LET o == keyOp'.outcome
               e == keyOp'.error
           IN /\ o.kind = "transport" => e = "DEEPGRAM_NETWORK_ERROR"
              /\ (o.kind = "response" /\ o.status = 401)
                    => e = "DEEPGRAM_API_KEY_INVALID"
              /\ (o.kind = "response" /\ o.status = 403)
                    => e = "DEEPGRAM_API_KEY_PERMISSION_DENIED"
              /\ (o.kind = "response" /\ o.status = 429)
                    => e = "DEEPGRAM_RATE_LIMIT_EXCEEDED"
              /\ (o.kind = "response" /\ o.status \in 500..599)
                    => e = "DEEPGRAM_SERVICE_UNAVAILABLE"
              /\ e # "none" => storage' = storage]_vars

\* a verification has failed on status 503 while a record is stored
C27_Witness ==
    /\ keyOp.op = "fetch"
    /\ keyOp.outcome.kind = "response" /\ keyOp.outcome.status = 503
    /\ keyOp.error = "DEEPGRAM_SERVICE_UNAVAILABLE"
    /\ storage.encrypted.by # 0

(***************************************************************************)
(* The offscreen document: starting and stopping the audio capture, in    *)
(* its AudioWorklet variant and in its MediaRecorder variant               *)
(***************************************************************************)
CaptureVariants == {"worklet", "recorder"}

\* how far handleStartAudioCapture got before it returned or threw.
\* AudioWorklet: getUserMedia, startMirrorAudioPlayback, new AudioContext,
\* new AudioWorkletNode, createMediaStreamSource.
\* MediaRecorder: getUserMedia, new MediaRecorder, ensurePlaybackMirror.
Stages(variant) == IF variant = "worklet" THEN 1..5 ELSE 1..3
LastStage(variant) == IF variant = "worklet" THEN 5 ELSE 3

acquire(cap, variant, stage) ==
    IF variant = "worklet"
    THEN [cap EXCEPT !.variant = variant,
                     !.mediaStream = TRUE,
                     !.mirror = IF stage >= 2 THEN "playing" ELSE @,
                     !.audioContext = stage >= 3,
                     !.workletNode = stage >= 4,
                     !.sourceNode = stage >= 5]
    ELSE [cap EXCEPT !.variant = variant,
                     !.mediaStream = TRUE,
                     !.mediaRecorder = stage >= 2,
                     !.mirror = IF stage >= 3 THEN "playing" ELSE @]

\* something of a capture is still held
Held(cap) ==
    \/ cap.sourceNode \/ cap.workletNode \/ cap.audioContext
    \/ cap.mediaStream \/ cap.mediaRecorder \/ cap.mirror = "playing"

\* a step of stopAudioCapture that runs only if its object is there
StepIf(there, step) == IF there THEN <<step>> ELSE <<>>

\* AudioWorklet stopAudioCapture from the end of its await on: the context
\* is forgotten, the tracks are stopped, stopMirrorAudioPlayback (which
\* keeps the audio element, paused and without a source)
stopTail(cap) ==
    [capture |-> [cap EXCEPT !.audioContext = FALSE,
                             !.mediaStream = FALSE,
                             !.mirror = IF @ = "none" THEN "none" ELSE "idle"],
     log |-> StepIf(cap.mediaStream, "stopTracks")
                \o StepIf(cap.mirror # "none", "stopMirror")]

\* AudioWorklet stopAudioCapture up to its await of audioContext.close(),
\* or to its end when there is no context
stopWorklet(cap) ==
    LET c1 == [cap EXCEPT !.sourceNode = FALSE, !.workletNode = FALSE]
        log1 == StepIf(cap.sourceNode, "disconnect")
                   \o StepIf(cap.workletNode, "disconnect")
        t == stopTail(c1)
    IN IF cap.audioContext
       THEN [capture |-> c1,
             call |-> [pc |-> "closing", log |-> log1 \o <<"closeContext">>]]
       ELSE [capture |-> t.capture,
             call |-> [pc |-> "done", log |-> log1 \o t.log]]

\* MediaRecorder stopAudioCapture: stopPlaybackMirror, the recorder, the
\* tracks; it awaits nothing
stopRecorder(cap) ==
    [capture |-> [cap EXCEPT !.mirror = "none", !.mediaRecorder = FALSE,
                             !.mediaStream = FALSE],
     call |-> [pc |-> "done",
               log |-> StepIf(cap.mirror # "none", "stopMirror")
                          \o StepIf(cap.mediaRecorder, "stopRecorder")
                          \o StepIf(cap.mediaStream, "stopTracks")]]

stopAudioCapture(cap) ==
    IF cap.variant = "worklet" THEN stopWorklet(cap) ELSE stopRecorder(cap)

stopUnchanged == UNCHANGED <<keyVars, chunkVars, clientVars, svcVars, viewVars,
                             whisperVars, coreVars>>

\* handleStartAudioCapture with nothing held (the stop it begins with finds
\* nothing to release): it gets as far as stage, and when that is not the
\* last stage its catch branch calls stopAudioCapture
StartCapture(variant, stage) ==
    /\ capture.variant \in {"none", variant}
    /\ ~Held(capture)
    /\ \A k \in DOMAIN stops : stops[k].pc = "done"
    /\ LET got == acquire(capture, variant, stage)
           r == stopAudioCapture(got)
       IN IF stage = LastStage(variant)
          THEN capture' = got /\ UNCHANGED stops
          ELSE /\ Len(stops) < MaxStops
               /\ capture' = r.capture
               /\ stops' = Append(stops, r.call)
    /\ stopUnchanged

\* OFFSCREEN_STOP_AUDIO_CAPTURE: stopAudioCapture up to its first await
StopCapture ==
    /\ capture.variant # "none"
    /\ Len(stops) < MaxStops
    /\ LET r == stopAudioCapture(capture)
       IN /\ capture' = r.capture
          /\ stops' = Append(stops, r.call)
    /\ stopUnchanged

\* audioContext.close() has settled: call k runs to its end
StopResume(k) ==
    /\ stops[k].pc = "closing"
    /\ LET t == stopTail(capture)
       IN /\ capture' = t.capture
          /\ stops' = [stops EXCEPT ![k] = [pc |-> "done",
                                            log |-> @.log \o t.log]]
    /\ stopUnchanged

InitStop == ClientInit /\ SvcInit /\ RestInit /\ sockLimit = MaxSocketsSmall

NextStop ==
    \/ \E variant \in CaptureVariants :
          \E stage \in Stages(variant) : StartCapture(variant, stage)
    \/ StopCapture
    \/ \E k \in DOMAIN stops : StopResume(k)

SpecStop == InitStop /\ [][NextStop]_vars

(***************************************************************************)
(* Windowed mode: AudioChunker (samples of a ScriptProcessor) and the     *)
(* MediaRecorder's ondataavailable.  Times are in tenths of a second.      *)
(***************************************************************************)
ChunkVariants == {"chunker", "recorder"}

\* this.chunkSamples, this.overlapSamples, this.stepSamples
chunkSamples == SamplesPerSecond * CHUNK_DURATION
overlapSamples == SamplesPerSecond * OVERLAP_DURATION
stepSamples == chunkSamples - overlapSamples

\* a duration of n samples, in tenths of a second
Tenths(n) == (10 * n) \div SamplesPerSecond

\* the chunker with the chunks it has handed to onChunkReady
Chunker(ck, out) == [ck |-> ck, out |-> out]

\* extractChunk(): the first chunkSamples samples of the buffer leave as a
\* chunk, the first stepSamples of them are removed from the buffer
extractChunk(c) ==
    LET startTime == c.ck.chunkIndex * Tenths(stepSamples)
        chunk == [index |-> c.ck.chunkIndex,
                  startTime |-> startTime,
                  endTime |-> startTime + 10 * CHUNK_DURATION,
                  firstSample |-> c.ck.bufferFrom,
                  samples |-> Min2(c.ck.bufferLen, chunkSamples),
                  isLast |-> FALSE]
    IN Chunker([c.ck EXCEPT !.bufferFrom = @ + Min2(c.ck.bufferLen, stepSamples),
                            !.bufferLen = @ - Min2(c.ck.bufferLen, stepSamples),
                            !.chunkIndex = @ + 1],
               Append(c.out, chunk))

\* while (this.buffer.length >= this.chunkSamples) this.extractChunk()
RECURSIVE extractWhileFull(_)
extractWhileFull(c) ==
    IF c.ck.bufferLen >= chunkSamples THEN extractWhileFull(extractChunk(c))
    ELSE c

\* processAudioData(audioBuffer) with a buffer of len samples
processAudioData(c, len) ==
    extractWhileFull(Chunker([c.ck EXCEPT !.bufferLen = @ + len,
                                          !.totalSamples = @ + len],
                             c.out))

\* flushBuffer(): what is left leaves as the last chunk unless it is
\* shorter than MIN_CHUNK_DURATION, half a second
flushBuffer(c) ==
    LET startTime == c.ck.chunkIndex * Tenths(stepSamples)
        chunk == [index |-> c.ck.chunkIndex,
                  startTime |-> startTime,
                  endTime |-> startTime + Tenths(c.ck.bufferLen),
                  firstSample |-> c.ck.bufferFrom,
                  samples |-> c.ck.bufferLen,
                  isLast |-> TRUE]
    IN IF 2 * c.ck.bufferLen < SamplesPerSecond THEN c
       ELSE Chunker([c.ck EXCEPT !.bufferFrom = @ + c.ck.bufferLen,
                                 !.bufferLen = 0],
                    Append(c.out, chunk))

\* mediaRecorder.ondataavailable with data, elapsed tenths of a second
\* after the chunk before (or after the start): the chunk begins where the
\* one before ended
ondataavailable(c, elapsed) ==
    LET durationSeconds == Max2(1, elapsed)
        startTime == c.ck.accumulatedDuration
        endTime == startTime + durationSeconds
        chunk == [index |-> c.ck.chunkIndex,
                  startTime |-> startTime,
                  endTime |-> endTime,
                  firstSample |-> 0,
                  samples |-> 0,
                  isLast |-> FALSE]
    IN Chunker([c.ck EXCEPT !.accumulatedDuration = endTime,
                            !.chunkIndex = @ + 1],
               Append(c.out, chunk))

\* lengths of the buffers the ScriptProcessor delivers, in samples
BlockLens == {1, 5, 8}
\* time between two dataavailable events, in tenths of a second: the
\* timeslice of CHUNK_DURATION seconds, the events taken to be on time
\* (stopAudioCapture takes the handler off before the rest that stop()
\* flushes is delivered)
RecorderElapsed == {10 * CHUNK_DURATION}

chunkUnchanged == UNCHANGED <<keyVars, stopVars, clientVars, svcVars, viewVars,
                              whisperVars, coreVars>>

CommitChunker(c) ==
    /\ chunking' = c.ck
    /\ chunksReady' = c.out

\* chunker.start(sourceNode, onChunkReady) after new AudioChunker / reset();
\* mediaRecorder.start(timeslice) after resetRecorderState()
ChunkingStart(variant) ==
    /\ chunking.variant = "none"
    /\ chunking' = [NoChunking EXCEPT !.variant = variant, !.running = TRUE]
    /\ UNCHANGED chunksReady
    /\ chunkUnchanged

\* onaudioprocess: processAudioData(event.inputBuffer)
AudioProcess(len) ==
    /\ chunking.variant = "chunker" /\ chunking.running
    /\ chunking.chunkIndex < MaxChunksOut
    /\ CommitChunker(processAudioData(Chunker(chunking, chunksReady), len))
    /\ chunkUnchanged

\* the recorder's dataavailable event
DataAvailable(elapsed) ==
    /\ chunking.variant = "recorder" /\ chunking.running
    /\ chunking.chunkIndex < MaxChunksOut
    /\ CommitChunker(ondataavailable(Chunker(chunking, chunksReady), elapsed))
    /\ chunkUnchanged

\* chunker.stop(): the processor node is disconnected and the buffer
\* flushed; the recorder's stopAudioCapture takes its handlers off and
\* resets chunkIndex and accumulatedDuration
ChunkingStop ==
    /\ chunking.running
    /\ LET c == Chunker([chunking EXCEPT !.running = FALSE], chunksReady)
       IN IF chunking.variant = "chunker"
          THEN CommitChunker(IF c.ck.bufferLen > 0 THEN flushBuffer(c) ELSE c)
          ELSE CommitChunker(Chunker([c.ck EXCEPT !.chunkIndex = 0,
                                                  !.accumulatedDuration = 0],
                                     c.out))
    /\ chunkUnchanged

InitChunk == ClientInit /\ SvcInit /\ RestInit /\ sockLimit = MaxSocketsSmall

NextChunk ==
    \/ \E variant \in ChunkVariants : ChunkingStart(variant)
    \/ \E len \in BlockLens : AudioProcess(len)
    \/ \E elapsed \in RecorderElapsed : DataAvailable(elapsed)
    \/ ChunkingStop

SpecChunk == InitChunk /\ [][NextChunk]_vars

\* C30: the k-th chunk of a capture in windowed mode (the rest flushed at
\* the stop aside) starts 2k seconds and ends 2k + 3 seconds after the
\* start of the session, so that it is 3 s long and begins 1 s before the
\* chunk before it ends.
C30_WindowOfChunk ==
    \A i \in DOMAIN chunksReady :
        LET chunk == chunksReady[i]
        IN ~chunk.isLast
           => /\ chunk.index = i - 1
              /\ chunk.startTime = 10 * 2 * chunk.index
              /\ chunk.endTime = 10 * (2 * chunk.index + 3)
              /\ i > 1 => chunksReady[i - 1].endTime - chunk.startTime = 10

\* the place of a teardown step in the order the claim gives; stopping the
\* recorder is not one of its steps
TeardownRank(step) ==
    CASE step = "disconnect" -> 1
      [] step = "closeContext" -> 2
      [] step = "stopTracks" -> 3
      [] step = "stopMirror" -> 4
      [] OTHER -> 0

\* C29: the steps of every stopAudioCapture call come in the order
\* disconnect the nodes, close the context, stop the tracks, tear down the
\* playback mirror.
C29_TeardownOrder ==
    \A k \in DOMAIN stops :
        \A i, j \in DOMAIN stops[k].log :
            (i < j /\ TeardownRank(stops[k].log[i]) # 0
                   /\ TeardownRank(stops[k].log[j]) # 0)
            => TeardownRank(stops[k].log[i]) <= TeardownRank(stops[k].log[j])

(***************************************************************************)
(* SubtitleService (Deepgram streaming) and AudioCapture                   *)
(***************************************************************************)
Service ==
    [isActive |-> isActive, currentTabId |-> currentTabId,
     audioCapture |-> audioCapture, captures |-> captures,
     hasClient |-> hasClient]

CommitSvc(v) ==
    /\ isActive' = v.isActive
    /\ currentTabId' = v.currentTabId
    /\ audioCapture' = v.audioCapture
    /\ captures' = v.captures
    /\ hasClient' = v.hasClient

\* AudioCapture.cleanup()
captureCleanup(v, c) == [v EXCEPT !.captures[c].isCapturing = FALSE]

\* AudioCapture.stop() up to its await: nothing when not capturing
captureStop(v, c) ==
    IF v.captures[c].isCapturing
    THEN [v EXCEPT !.captures[c].stopping = TRUE]
    ELSE v

\* SubtitleService.cleanup(), the part on the service's own fields
cleanup(v) ==
    LET v1 == IF v.audioCapture # 0
              THEN [captureStop(v, v.audioCapture) EXCEPT !.audioCapture = 0]
              ELSE v
    IN [v1 EXCEPT !.currentTabId = 0]

\* SubtitleService.cleanup(): the service's fields and deepgramClient.close()
CleanupStep(v) ==
    /\ CommitSvc(cleanup(v))
    /\ IF v.hasClient THEN CloseStep ELSE UNCHANGED clientVars

\* the guard at the head of enable()
enableProceeds(active) == ~active

\* enable(tabId) up to its first await
EnableCall(e, tab) ==
    /\ enables[e].pc = "idle"
    /\ \A d \in EnableIds : d < e => enables[d].pc # "idle"
    /\ IF ~enableProceeds(isActive)
       THEN /\ enables' = [enables EXCEPT ![e] = [pc |-> "done", tab |-> tab,
                                                  disabled |-> FALSE,
                                                  afterDisable |-> disabledOnce]]
            /\ UNCHANGED <<isActive, currentTabId, audioCapture, captures,
                           hasClient>>
            /\ UNCHANGED clientVars
       ELSE IF ~hasClient
       THEN \* init(): this.deepgramClient = new ...; await client.init()
            /\ enables' = [enables EXCEPT ![e] = [pc |-> "init", tab |-> tab,
                                                  disabled |-> FALSE,
                                                  afterDisable |-> disabledOnce]]
            /\ CommitSvc([Service EXCEPT !.hasClient = TRUE])
            /\ InitStartStep
       ELSE /\ enables' = [enables EXCEPT ![e] = [pc |-> "askContent",
                                                  tab |-> tab,
                                                  disabled |-> FALSE,
                                                  afterDisable |-> disabledOnce]]
            /\ CommitSvc([Service EXCEPT !.currentTabId = tab])
            /\ UNCHANGED clientVars
    /\ svcOp' = "enable"
    /\ UNCHANGED disabledOnce
    /\ UNCHANGED restVars
    /\ UNCHANGED disablePc

\* enable() after `await this.init()`
EnableInitDone(e) ==
    /\ enables[e].pc = "init"
    /\ initPc \in {"resolved", "rejected"}
    /\ IF initPc = "resolved"
       THEN /\ enables' = [enables EXCEPT ![e].pc = "askContent"]
            /\ CommitSvc([Service EXCEPT !.currentTabId = enables[e].tab])
       ELSE /\ enables' = [enables EXCEPT ![e].pc = "handleError"]
            /\ CommitSvc(Service)
    /\ svcOp' = "enableInitDone"
    /\ UNCHANGED disabledOnce
    /\ UNCHANGED restVars
    /\ UNCHANGED <<disablePc, clientVars>>

\* enable() after `await chrome.tabs.sendMessage(ENABLE_SUBTITLES)`:
\* the call throws, the page has no video, or AudioCapture.start() begins
EnableContentReply(e, reply) ==
    /\ enables[e].pc = "askContent"
    /\ IF reply = "throws"
       THEN /\ enables' = [enables EXCEPT ![e].pc = "handleError"]
            /\ CommitSvc(Service)
       ELSE IF reply = "noVideo"
       THEN /\ enables' = [enables EXCEPT ![e].pc = "done"]
            /\ CommitSvc(Service)
       ELSE /\ enables' = [enables EXCEPT ![e].pc = "ensureDocument"]
            /\ CommitSvc([Service EXCEPT !.audioCapture = e])
    /\ svcOp' = "enableContentReply"
    /\ UNCHANGED disabledOnce
    /\ UNCHANGED restVars
    /\ UNCHANGED <<disablePc, clientVars>>

\* AudioCapture.start() after one of its awaits (ensureOffscreenDocument,
\* getMediaStreamId, the start message to the offscreen document)
CaptureStartAwait(e, ok) ==
    /\ enables[e].pc \in {"ensureDocument", "getStreamId", "startMessage"}
    /\ IF ~ok
       THEN /\ enables' = [enables EXCEPT ![e].pc = "handleError"]
            /\ CommitSvc(captureCleanup(Service, e))
       ELSE IF enables[e].pc = "ensureDocument"
       THEN /\ enables' = [enables EXCEPT ![e].pc = "getStreamId"]
            /\ CommitSvc(Service)
       ELSE IF enables[e].pc = "getStreamId"
       THEN /\ enables' = [enables EXCEPT ![e].pc = "startMessage"]
            /\ CommitSvc(Service)
       ELSE \* isCapturing = true; back in enable(): isActive = true
            /\ enables' = [enables EXCEPT ![e].pc = "done"]
            /\ CommitSvc([Service EXCEPT !.captures[e].isCapturing = TRUE,
                                         !.isActive = TRUE])
    /\ svcOp' = "captureStart"
    /\ UNCHANGED disabledOnce
    /\ UNCHANGED restVars
    /\ UNCHANGED <<disablePc, clientVars>>

\* enable()'s catch after `await ErrorHandler.handle(...)`: cleanup()
EnableCatch(e) ==
    /\ enables[e].pc = "handleError"
    /\ enables' = [enables EXCEPT ![e].pc = "done"]
    /\ CleanupStep(Service)
    /\ svcOp' = "enableCatch"
    /\ UNCHANGED disabledOnce
    /\ UNCHANGED restVars
    /\ UNCHANGED disablePc

\* AudioCapture.stop() after its await: finally cleanup()
CaptureStopDone(c) ==
    /\ captures[c].stopping
    /\ CommitSvc([captureCleanup(Service, c) EXCEPT
                    !.captures[c].stopping = FALSE])
    /\ svcOp' = "captureStopDone"
    /\ UNCHANGED disabledOnce
    /\ UNCHANGED restVars
    /\ UNCHANGED <<enables, disablePc, clientVars>>

\* an enable() that has been called and has not returned
InProgress(e) == enables[e].pc \notin {"idle", "done"}

\* disable() of an active service up to its await (also called when the
\* tab is removed)
DisableCall ==
    /\ disablePc = "idle"
    /\ isActive
    /\ IF currentTabId # 0
       THEN disablePc' = "notify" /\ CommitSvc(Service)
                                  /\ UNCHANGED clientVars
       ELSE /\ disablePc' = "idle"
            /\ CleanupStep([Service EXCEPT !.isActive = FALSE])
    /\ svcOp' = "disable"
    /\ disabledOnce' = (disabledOnce \/ currentTabId = 0)
    /\ UNCHANGED restVars
    /\ UNCHANGED enables

\* disable() called while the service is not active and an enable() is in
\* progress: `if (!this.isActive) return`
DisableIgnored ==
    /\ disablePc = "idle"
    /\ ~isActive
    /\ \E e \in EnableIds : InProgress(e)
    /\ enables' = [e \in EnableIds |->
                     IF InProgress(e)
                     THEN [enables[e] EXCEPT !.disabled = TRUE]
                     ELSE enables[e]]
    /\ CommitSvc(Service)
    /\ svcOp' = "disableIgnored"
    /\ UNCHANGED disabledOnce
    /\ UNCHANGED restVars
    /\ UNCHANGED <<disablePc, clientVars>>

\* disable() after notifying the content script: cleanup(); isActive = false
DisableNotified ==
    /\ disablePc = "notify"
    /\ disablePc' = "idle"
    /\ CleanupStep([Service EXCEPT !.isActive = FALSE])
    /\ svcOp' = "disableDone"
    /\ disabledOnce' = TRUE
    /\ UNCHANGED restVars
    /\ UNCHANGED enables

ContentReplies == {"ok", "noVideo", "throws"}

NextSvc ==
    \/ \E e \in EnableIds, tab \in Tabs : EnableCall(e, tab)
    \/ \E e \in EnableIds : EnableInitDone(e)
    \/ \E e \in EnableIds, r \in ContentReplies : EnableContentReply(e, r)
    \/ \E e \in EnableIds, ok \in BOOLEAN : CaptureStartAwait(e, ok)
    \/ \E e \in EnableIds : EnableCatch(e)
    \/ \E c \in EnableIds : CaptureStopDone(c)
    \/ DisableCall
    \/ DisableNotified
    \/ ClientEnv

InitSvc == ClientInit /\ SvcInit /\ RestInit /\ sockLimit = MaxSocketsSmall

SpecSvc == InitSvc /\ [][NextSvc]_vars

\* the service with one enable() and the disable() calls made during and
\* after it
NextDisable ==
    \/ \E tab \in Tabs : EnableCall(1, tab)
    \/ EnableInitDone(1)
    \/ \E r \in ContentReplies : EnableContentReply(1, r)
    \/ \E ok \in BOOLEAN : CaptureStartAwait(1, ok)
    \/ EnableCatch(1)
    \/ CaptureStopDone(1)
    \/ DisableCall
    \/ DisableNotified
    \/ DisableIgnored
    \/ ClientEnv

SpecDisable == InitSvc /\ [][NextDisable]_vars

\* C31: at any time at most one socket of the client is connecting or open
\* and at most one reconnect timeout is armed.
C31_OneConnectionOneTimer ==
    /\ Cardinality(LiveSockets) <= 1
    /\ Cardinality(timeouts) <= 1

\* a reconnect timeout has fired and called connect() while an earlier
\* connect() is still waiting for its connection
C31_Witness ==
    /\ lastOp.op = "reconnect"
    /\ Cardinality(pollers) >= 2
    /\ Cardinality(LiveSockets) = 1

\* C32: the reported state is Connected exactly when the client holds an
\* open socket.
C32_ConnectedIffOpen ==
    connectionState = CONNECTED
    <=> (websocket # 0 /\ sockets[websocket].st = "open")

\* a reconnect attempt fails in this step: its socket closes non-cleanly
\* without having been open, or its connect() is rejected (state ERROR
\* seen, or the 10 s timeout)
ReconnectAttemptFails ==
    \/ /\ UncleanClose(lastOp')
       /\ lastOp'.sock \in SockIds
       /\ sockets[lastOp'.sock].st = "connecting"
       /\ sockets'[lastOp'.sock].st = "closed"
       /\ reconnectAttempts >= 1
    \/ /\ lastOp'.op \in {"connectRejected", "connectTimeout"}
       /\ \E p \in pollers \ pollers' : ~p.fromInit

\* the client goes on after the step: a reconnect is scheduled or waiting
\* for its connection, or the connection is there
GoesOn ==
    \/ timeouts' # {}
    \/ \E p \in pollers' : ~p.fromInit
    \/ connectionState' = CONNECTED

\* the client has given up in this step and said so: the attempts are used
\* up, nothing is scheduled, and the last thing the listeners were told is
\* an error
GivesUp ==
    /\ reconnectAttempts' >= RECONNECT_MAX_RETRIES
    /\ timeouts' = {}
    /\ stepLog' # <<>>
    /\ LET last == stepLog'[Len(stepLog')]
       IN \/ last = ErrorEv
          \/ last.ev = "onStateChange" /\ last.new = ERROR

\* C33: every reconnect attempt that fails before its socket opened (error,
\* early close, 10 s timeout) leads to another scheduled reconnect or to
\* the give-up that reports the failure, so the client is never left with
\* neither.
C33_ReconnectNeverStuck ==
    [][ReconnectAttemptFails => (GoesOn \/ GivesUp)]_vars

\* every call of the service has returned and no capture is being stopped
ServiceSettled ==
    /\ \A e \in EnableIds : ~InProgress(e)
    /\ disablePc = "idle"
    /\ \A c \in EnableIds : ~captures[c].stopping

\* C34: when disable() was called during an enable() and no enable() was
\* called after that one, then once all calls have returned the service is
\* inactive, no audio capture is running and no recognition connection is
\* open or opening.
C34_DisableNotLost ==
    (/\ ServiceSettled
     /\ \E e \in EnableIds :
           /\ enables[e].disabled
           /\ \A d \in EnableIds : d > e => enables[d].pc = "idle")
    => /\ ~isActive
       /\ \A c \in EnableIds : ~captures[c].isCapturing
       /\ \A s \in SockIds : sockets[s].st \notin {"connecting", "open"}

\* C35: when an enable() that follows a disable() returns with success, a
\* recognition connection is open or being opened, so that the frames that
\* arrive afterwards can be forwarded.
C35_ReenableReconnects ==
    [][\A e \in EnableIds :
          (/\ enables[e].afterDisable
           /\ enables[e].pc = "startMessage" /\ enables'[e].pc = "done"
           /\ isActive')
          => \E s \in SockIds : sockets'[s].st \in {"connecting", "open"}]_vars

\* C36: when the only enable() called so far returns without success (the
\* page has no video, or the catch branch ran after init(), the message to
\* the page or the capture start failed), the service is inactive, holds no
\* tab id and no capture, no capture is running and no recognition
\* connection is open or opening.
C36_FailedEnableLeavesNothing ==
    [][\A e \in EnableIds :
          (/\ \A d \in EnableIds : d # e => enables[d].pc = "idle"
           /\ InProgress(e) /\ enables'[e].pc = "done"
           /\ svcOp' \in {"enableContentReply", "enableCatch"})
          => /\ ~isActive'
             /\ currentTabId' = 0
             /\ audioCapture' = 0
             /\ \A c \in EnableIds : ~captures'[c].isCapturing
             /\ \A s \in SockIds :
                   sockets'[s].st \notin {"connecting", "open"}]_vars

\* a processChunk invocation whose chunk was captured in a session that a
\* disable() ended, a later enable() having started the next one
Stale(j) == j \in DOMAIN jobs /\ jobs[j].session < chunker.session

\* C37: the result of a chunk captured before disable() does not change
\* the overlap processor of the session a later enable() started, and is
\* not sent to the content script, even when its recognition request
\* completes after that enable().
C37_StaleResultDropped ==
    [][\A j \in DOMAIN jobs :
          (Stale(j) /\ jobs[j].pc # jobs'[j].pc)
          => (processor' = processor /\ sent' = sent)]_vars

\* C38: a process() call that throws INVALID_INPUT leaves the processor as
\* it was: previous segments, processed segments and chunk count.
C38_InvalidInputNoChange ==
    [][coreOp'.op = "processThrown" => processor' = processor]_vars

\* C39: what getKey() returns, on the device that saved, is the trimmed
\* form of the key the successful verifyAndSave call was given: the key
\* that validateFormat returned and the fetch of verifyKey presented.
C39_GetReturnsTrimmedKey ==
    [][(keyOp'.op = "getKey" /\ keyOp'.error = "none")
        => keyOp'.got = validateFormat(storage.encrypted.cipherOf).key]_vars

\* C40: when the overlay's current segment index is not -1 it is an index
\* of the stored segment list (0-based) and the overlay shows exactly one
\* caption, the text of the segment at that index.
C40_IndexNamesShownSegment ==
    (overlay.exists /\ overlay.currentSegmentIndex # -1)
    => /\ overlay.currentSegmentIndex + 1 \in DOMAIN overlay.segments
       /\ overlay.display = "flex"
       /\ Len(overlay.container) = 1
       /\ overlay.container[1].text =
             overlay.segments[overlay.currentSegmentIndex + 1].text

Capturing == {c \in EnableIds : captures[c].isCapturing}

\* C9 (as claimed): at most one audio capture is running and at most one
\* recognition connection is open or opening, whatever the interleaving of
\* the enable requests.
C9_AtMostOneSession ==
    /\ Cardinality(Capturing) <= 1
    /\ Cardinality(LiveSockets) <= 1

====
